---------------------------- MODULE Spec2Model ----------------------------
(***************************************************************************)
(* Model of the save-file codec of bakugan-editor (saveFormat.js, the      *)
(* revision with four platforms, stats and deck names).                    *)
(*                                                                         *)
(* The byte buffer is a Uint8Array: a length and one byte per index.  It   *)
(* is kept sparse here: len, the byte every index held when the file was   *)
(* parsed (fill), and the indices that now hold another byte (mem).  A     *)
(* read outside 0..len-1 yields undefined and a store outside it is        *)
(* dropped, as a typed array does.                                         *)
(*                                                                         *)
(* A nullable JavaScript value is None (<<>>) or Some(v) (<<v>>).          *)
(***************************************************************************)
EXTENDS Integers, Sequences, FiniteSets, TLC

VARIABLES bytes, ctx, last, prev, nops, ui

vars == <<bytes, ctx, last, prev, nops, ui>>

-----------------------------------------------------------------------------
(* Nullable values *)

None == <<>>

Some(v) == <<v>>

IsNone(o) == Len(o) = 0

Get(o) == o[1]

\* x ?? d
OrElse(o, d) == IF IsNone(o) THEN d ELSE Get(o)

-----------------------------------------------------------------------------
(* JavaScript integer conversions *)

\* ToUint8: what a Uint8Array element keeps of a number stored into it
ToUint8(n) == n % 256

\* A number that may pass 2^31 - 1 is kept as [q, r], the number
\* q * 2^31 + r with 0 <= r < 2^31.
Big(q, r) == [q |-> q, r |-> r]

\* the [q, r] form of a number between -2^31 and 2^31 - 1
Num(n) == IF n < 0 THEN Big(-1, (n + 2147483647) + 1) ELSE Big(0, n)

\* n | 0, that is ToInt32: q * 2^31 + r modulo 2^32, as a signed 32-bit number
ToInt32(n) == IF n.q % 2 = 0 THEN n.r ELSE (n.r - 2147483647) - 1

\* x & mask for mask = 2^k - 1, k <= 32: the low k bits of x, and 2^k divides
\* 2^32, so ToInt32 does not change them
BitAnd(n, mask) == n % (mask + 1)

-----------------------------------------------------------------------------
(* Core config *)

BAKUGAN_BLOCK_SIZE == 120

ATTRIBUTE_BLOCK_SIZE == 20

ENTRY_SIZE == 14

PLAYER_NAME_MAX_CHARS == 8

STYLING_LENGTH == 45

DECK_LENGTH == 36

DECK_CARD_BASE_ID == 10232

DECK_NAME_MAX_CHARS == 10

-----------------------------------------------------------------------------
(* Platform configs *)

Ps3StatsOffsets ==
    [ rankingPoints      |-> 10925,   \* 0x2AAD
      bakuganPoints      |-> 10929,   \* 0x2AB1
      battles            |-> 10935,   \* 0x2AB7
      wins               |-> 10937,   \* 0x2AB9
      losses             |-> 10939,   \* 0x2ABB
      sphereAttacks      |-> 10943,   \* 0x2ABF
      doubleStands       |-> 10945,   \* 0x2AC1
      oneVsOne           |-> 10947,   \* 0x2AC3
      battleRoyale       |-> 10949,   \* 0x2AC5
      tagTeam            |-> 10951,   \* 0x2AC7
      opponentWins       |-> 10954,   \* 0x2ACA
      attributeUsageBase |-> 11125 ]  \* 0x2B75

StatsKeys == DOMAIN Ps3StatsOffsets

FORMAT_CONFIGS ==
    [ ps3 |->
        [ saveSize |-> None, baseOffset |-> 227, cardBaseOffset |-> -48,
          playerNameOffset |-> 197, stylingOffset |-> 12735,
          deckOffsets |-> <<10504, 10580>>, wordEndian |-> "big",
          deckNameBackOffset |-> Some(39),
          statsOffsets |-> Some(Ps3StatsOffsets) ],
      wii |->
        [ saveSize |-> Some(13952), baseOffset |-> 275, cardBaseOffset |-> 0,
          playerNameOffset |-> 245, stylingOffset |-> 12783,
          deckOffsets |-> <<10552, 10628>>, wordEndian |-> "big",
          deckNameBackOffset |-> Some(39),
          statsOffsets |-> None ],
      ps2 |->
        [ saveSize |-> Some(13920), baseOffset |-> 2336, cardBaseOffset |-> 2064,
          playerNameOffset |-> 2308, stylingOffset |-> 14846,
          deckOffsets |-> <<12616, 12692>>, wordEndian |-> "little",
          deckNameBackOffset |-> Some(40),
          statsOffsets |-> None ],
      x360 |->
        [ saveSize |-> Some(13952), baseOffset |-> 319, cardBaseOffset |-> 44,
          playerNameOffset |-> 289, stylingOffset |-> 12827,
          deckOffsets |-> <<10596, 10672>>, wordEndian |-> "big",
          deckNameBackOffset |-> Some(39),
          statsOffsets |-> None ] ]

PLATFORMS == {"ps3", "wii", "x360", "ps2"}

\* FORMAT_CONFIGS is an object literal, so FORMAT_CONFIGS[platform] also finds
\* the properties it inherits from Object.prototype; each is a function or an
\* object (truthy) that has none of the layout fields.
ObjectPrototypeKeys ==
    {"constructor", "toString", "valueOf", "hasOwnProperty", "__proto__",
     "__defineGetter__", "__defineSetter__", "__lookupGetter__",
     "__lookupSetter__", "isPrototypeOf", "propertyIsEnumerable",
     "toLocaleString"}

-----------------------------------------------------------------------------
(* Results of a call: err = "" and the value returned, or the error thrown *)

Ok(v) == [err |-> "", val |-> v]

Err(e) == [err |-> e, val |-> None]

-----------------------------------------------------------------------------
(* Save context *)

\* Faulty variant of ClampSlot: the upper clamp "if (slot > 3) slot = 3" is lost.
ClampSlotNoUpper(platform, saveSlot) ==
    IF platform = "ps3" THEN 0
    ELSE IF saveSlot < 0 THEN 0 ELSE saveSlot

\* slot after "let slot = saveSlot || 0" and the per-platform clamping
ClampSlot(platform, saveSlot) ==
    IF platform = "ps3" THEN 0
    ELSE IF platform \in {"wii", "ps2", "x360"}
         THEN IF saveSlot < 0 THEN 0 ELSE IF saveSlot > 3 THEN 3 ELSE saveSlot
         ELSE saveSlot

\* shift = cfg.saveSize ? cfg.saveSize * slot : 0
SlotShift(cfg, slot) ==
    IF IsNone(cfg.saveSize) \/ Get(cfg.saveSize) = 0 THEN 0
    ELSE Get(cfg.saveSize) * slot

ShiftStats(cfg, shift) ==
    IF IsNone(cfg.statsOffsets) THEN None
    ELSE Some([k \in DOMAIN Get(cfg.statsOffsets) |-> Get(cfg.statsOffsets)[k] + shift])

\* Faulty variant of ShiftDecks: the deck offsets of slot 0 serve every slot.
ShiftDecksUnshifted(cfg, shift) ==
    [i \in DOMAIN cfg.deckOffsets |-> cfg.deckOffsets[i]]

ShiftDecks(cfg, shift) ==
    [i \in DOMAIN cfg.deckOffsets |-> cfg.deckOffsets[i] + shift]

\* Faulty variant of DeckNameOffsets: derived from the profile's deck offsets,
\* not from the shifted ones.
DeckNameOffsetsUnshifted(cfg, deckOffsets) ==
    IF IsNone(cfg.deckNameBackOffset) THEN None
    ELSE Some([i \in DOMAIN deckOffsets |->
                  cfg.deckOffsets[i] - Get(cfg.deckNameBackOffset)])

\* Faulty variant of DeckNameOffsets: the name region is put 19 bytes before
\* the deck, so that its last byte is the deck's first.
DeckNameOffsetsTooClose(cfg, deckOffsets) ==
    IF IsNone(cfg.deckNameBackOffset) THEN None
    ELSE Some([i \in DOMAIN deckOffsets |-> deckOffsets[i] - 19])

DeckNameOffsets(cfg, deckOffsets) ==
    IF IsNone(cfg.deckNameBackOffset) THEN None
    ELSE Some([i \in DOMAIN deckOffsets |-> deckOffsets[i] - Get(cfg.deckNameBackOffset)])

getSaveContext(platform, saveSlot) ==
    IF platform \in DOMAIN FORMAT_CONFIGS
    THEN LET cfg   == FORMAT_CONFIGS[platform]
             slot  == ClampSlot(platform, saveSlot)
             shift == SlotShift(cfg, slot)
         IN  Ok([ platform         |-> platform,
                  slot             |-> slot,
                  baseOffset       |-> cfg.baseOffset + shift,
                  cardBaseOffset   |-> cfg.cardBaseOffset + shift,
                  playerNameOffset |-> cfg.playerNameOffset + shift,
                  stylingOffset    |-> cfg.stylingOffset + shift,
                  deckOffsets      |-> ShiftDecks(cfg, shift),
                  deckNameOffsets  |-> DeckNameOffsets(cfg, ShiftDecks(cfg, shift)),
                  wordEndian       |-> cfg.wordEndian,
                  statsOffsets     |-> ShiftStats(cfg, shift) ])
    ELSE IF platform \in ObjectPrototypeKeys
         \* cfg is truthy, cfg.deckOffsets is undefined: .map throws
         THEN Err("TypeError")
         ELSE Err("UnknownPlatform")

-----------------------------------------------------------------------------
(* The byte buffer *)

\* parseSaveFile: a view of the file's bytes
EmptyMem == [x \in {} |-> 0]

parseSaveFile(len, fill) == [len |-> len, fill |-> fill, mem |-> EmptyMem]

InRange(b, o) == o >= 0 /\ o < b.len

\* bytes[o] where it is defined
ByteAt(b, o) == IF o \in DOMAIN b.mem THEN b.mem[o] ELSE b.fill

\* bytes[o]: undefined outside the array
Load(b, o) == IF InRange(b, o) THEN Some(ByteAt(b, o)) ELSE None

\* bytes[o] in a bitwise expression: undefined converts to 0
LoadInt(b, o) == OrElse(Load(b, o), 0)

\* The buffer after the stores ws (a sequence of <<offset, value>>) made in
\* order: a store outside the array is dropped, a later store to an index
\* replaces an earlier one, and an element keeps ToUint8 of the value.
StoreAll(b, ws) ==
    LET kept      == {i \in DOMAIN ws : InRange(b, ws[i][1])}
        touched   == {ws[i][1] : i \in kept}
        lastTo(x) == CHOOSE i \in kept :
                         /\ ws[i][1] = x
                         /\ \A j \in kept : ws[j][1] = x => j <= i
        after(x)  == IF x \in touched THEN ToUint8(ws[lastTo(x)][2]) ELSE ByteAt(b, x)
    IN  [b EXCEPT !.mem = [x \in {y \in (DOMAIN b.mem) \cup touched : after(y) # b.fill}
                              |-> after(x)]]

\* bytes[o] = n
Store(b, o, n) == StoreAll(b, << <<o, n>> >>)

-----------------------------------------------------------------------------
(* Core helpers *)

readU16(b, offset, c) ==
    IF c.wordEndian = "little"
    THEN LoadInt(b, offset) + LoadInt(b, offset + 1) * 256
    ELSE LoadInt(b, offset) * 256 + LoadInt(b, offset + 1)

\* Faulty variant of U16Stores: high byte first whatever the context says.
U16StoresBigOnly(offset, value, c) ==
    << <<offset, (BitAnd(value, 65535) \div 256) % 256>>,
       <<offset + 1, BitAnd(value, 65535) % 256>> >>

\* the stores writeU16 makes
U16Stores(offset, value, c) ==
    LET v == BitAnd(value, 65535)
    IN  IF c.wordEndian = "little"
        THEN << <<offset, v % 256>>, <<offset + 1, (v \div 256) % 256>> >>
        ELSE << <<offset, (v \div 256) % 256>>, <<offset + 1, v % 256>> >>

writeU16(b, offset, value, c) == StoreAll(b, U16Stores(offset, value, c))

\* Faulty variant of readU24: high byte first whatever the context says.
readU24HighFirst(b, offset, c) ==
    LoadInt(b, offset) * 65536 + LoadInt(b, offset + 1) * 256 + LoadInt(b, offset + 2)

readU24(b, offset, c) ==
    IF c.wordEndian = "little"
    THEN LoadInt(b, offset) + LoadInt(b, offset + 1) * 256
           + LoadInt(b, offset + 2) * 65536
    ELSE LoadInt(b, offset) * 65536 + LoadInt(b, offset + 1) * 256
           + LoadInt(b, offset + 2)

\* Faulty variant of U24Stores: a value past 24 bits is clamped, not masked.
U24StoresClamped(offset, value, c) ==
    LET v == IF value > 16777215 THEN 16777215 ELSE IF value < 0 THEN 0 ELSE value
    IN  IF c.wordEndian = "little"
        THEN << <<offset, v % 256>>, <<offset + 1, (v \div 256) % 256>>,
                <<offset + 2, (v \div 65536) % 256>> >>
        ELSE << <<offset, (v \div 65536) % 256>>, <<offset + 1, (v \div 256) % 256>>,
                <<offset + 2, v % 256>> >>

U24Stores(offset, value, c) ==
    LET v == BitAnd(value, 16777215)
    IN  IF c.wordEndian = "little"
        THEN << <<offset, v % 256>>, <<offset + 1, (v \div 256) % 256>>,
                <<offset + 2, (v \div 65536) % 256>> >>
        ELSE << <<offset, (v \div 65536) % 256>>, <<offset + 1, (v \div 256) % 256>>,
                <<offset + 2, v % 256>> >>

writeU24(b, offset, value, c) == StoreAll(b, U24Stores(offset, value, c))

\* Faulty variant of getBakuganOffset: attribute blocks of 10 bytes.
getBakuganOffsetNarrow(c, bakuganId, attributeId) ==
    c.baseOffset + bakuganId * BAKUGAN_BLOCK_SIZE + attributeId * 10

getBakuganOffset(c, bakuganId, attributeId) ==
    c.baseOffset + bakuganId * BAKUGAN_BLOCK_SIZE + attributeId * ATTRIBUTE_BLOCK_SIZE

-----------------------------------------------------------------------------
(* Results of a write: the error thrown ("" for none) and the buffer left *)

Wrote(b) == [err |-> "", bytes |-> b]

Threw(e, b) == [err |-> e, bytes |-> b]

-----------------------------------------------------------------------------
(* Bakugan entries *)

RawKeys == {"power", "speed", "defense", "acceleration", "endurance", "jump", "level"}

readBakuganEntry(b, c, bakuganId, attributeId) ==
    LET offset == getBakuganOffset(c, bakuganId, attributeId)
    IN  IF offset + ENTRY_SIZE > b.len THEN Err("OutOfRange")
        ELSE Ok([ offset      |-> offset,
                  bakuganId   |-> bakuganId,
                  attributeId |-> attributeId,
                  raw |-> [ id           |-> Load(b, offset + 0),
                            attribute    |-> Load(b, offset + 4),
                            power        |-> readU16(b, offset + 5, c),
                            speed        |-> Load(b, offset + 8),
                            defense      |-> Load(b, offset + 9),
                            acceleration |-> Load(b, offset + 10),
                            endurance    |-> Load(b, offset + 11),
                            jump         |-> Load(b, offset + 12),
                            level        |-> Load(b, offset + 13) ] ])

\* Faulty variant of EntryStores: the id and attribute bytes come from raw,
\* as in the earlier revision.
EntryStoresFromRaw(offset, c, bakuganId, attributeId, raw) ==
    << <<offset + 0, OrElse(raw.id, 0)>>, <<offset + 4, OrElse(raw.attribute, 0)>> >>
    \o U16Stores(offset + 5, OrElse(raw.power, 0), c)
    \o << <<offset + 8,  OrElse(raw.speed, 0)>>,
          <<offset + 9,  OrElse(raw.defense, 0)>>,
          <<offset + 10, OrElse(raw.acceleration, 0)>>,
          <<offset + 11, OrElse(raw.endurance, 0)>>,
          <<offset + 12, OrElse(raw.jump, 0)>>,
          <<offset + 13, OrElse(raw.level, 0)>> >>

\* the stores of writeBakuganEntry, in the order the code makes them
EntryStores(offset, c, bakuganId, attributeId, raw) ==
    << <<offset + 0, bakuganId>>, <<offset + 4, attributeId>> >>
    \o U16Stores(offset + 5, OrElse(raw.power, 0), c)
    \o << <<offset + 8,  OrElse(raw.speed, 0)>>,
          <<offset + 9,  OrElse(raw.defense, 0)>>,
          <<offset + 10, OrElse(raw.acceleration, 0)>>,
          <<offset + 11, OrElse(raw.endurance, 0)>>,
          <<offset + 12, OrElse(raw.jump, 0)>>,
          <<offset + 13, OrElse(raw.level, 0)>> >>

\* Faulty variant of writeBakuganEntry: the bounds check is lost.
writeBakuganEntryUnchecked(b, c, bakuganId, attributeId, raw) ==
    Wrote(StoreAll(b, EntryStores(getBakuganOffset(c, bakuganId, attributeId),
                                  c, bakuganId, attributeId, raw)))

writeBakuganEntry(b, c, bakuganId, attributeId, raw) ==
    LET offset == getBakuganOffset(c, bakuganId, attributeId)
    IN  IF offset + ENTRY_SIZE > b.len THEN Threw("OutOfRange", b)
        ELSE Wrote(StoreAll(b, EntryStores(offset, c, bakuganId, attributeId, raw)))

-----------------------------------------------------------------------------
(* Card flags *)

getCardOffset(c, cardId) == c.cardBaseOffset + cardId

\* the guard of readCardFlag and writeCardFlag
CardOffsetRejected(b, offset) == offset >= b.len

\* bytes[offset] !== 0: undefined is not 0
readCardFlag(b, c, cardId) ==
    LET offset == getCardOffset(c, cardId)
    IN  IF CardOffsetRejected(b, offset) THEN Err("OutOfRange")
        ELSE Ok(Load(b, offset) # Some(0))

writeCardFlag(b, c, cardId, unlocked) ==
    LET offset == getCardOffset(c, cardId)
    IN  IF CardOffsetRejected(b, offset) THEN Threw("OutOfRange", b)
        ELSE Wrote(Store(b, offset, IF unlocked THEN 1 ELSE 0))

-----------------------------------------------------------------------------
(* Names: [char, 0x00] pairs.  A name is the sequence of its char codes. *)

\* String.fromCharCode(bytes[i]): undefined converts to char code 0
CharOf(o) == OrElse(o, 0)

\* the read loop from index i: stops at the first char byte that is 0
RECURSIVE ReadChars(_, _, _, _)
ReadChars(b, base, i, max) ==
    IF i >= max THEN <<>>
    ELSE LET charByte == Load(b, base + i * 2)
         IN  IF charByte = Some(0) THEN <<>>
             ELSE <<CharOf(charByte)>> \o ReadChars(b, base, i + 1, max)

\* Faulty variant of SafeChar: no upper limit on the char code.
SafeCharNoUpper(ch) == IF ch >= 32 THEN ch ELSE 63

\* c >= 0x20 && c <= 0x7e ? c : 0x3f
SafeChar(ch) == IF ch >= 32 /\ ch <= 126 THEN ch ELSE 63

\* the char byte written at pair i
NameChar(safeName, i) ==
    IF i < Len(safeName) THEN SafeChar(safeName[i + 1]) ELSE 0

\* name.slice(0, max)
Slice(name, max) == SubSeq(name, 1, IF Len(name) < max THEN Len(name) ELSE max)

RECURSIVE NameStores(_, _, _, _)
NameStores(base, safeName, i, max) ==
    IF i >= max THEN <<>>
    ELSE << <<base + i * 2, NameChar(safeName, i)>>, <<base + i * 2 + 1, 0>> >>
         \o NameStores(base, safeName, i + 1, max)

\* Faulty variant of readPlayerName: a zero char byte does not end the name.
readPlayerNameNoStop(b, c) ==
    Ok([k \in 1..PLAYER_NAME_MAX_CHARS |-> CharOf(Load(b, c.playerNameOffset + (k - 1) * 2))])

readPlayerName(b, c) ==
    Ok(ReadChars(b, c.playerNameOffset, 0, PLAYER_NAME_MAX_CHARS))

writePlayerName(b, c, name) ==
    Wrote(StoreAll(b, NameStores(c.playerNameOffset,
                                 Slice(name, PLAYER_NAME_MAX_CHARS), 0,
                                 PLAYER_NAME_MAX_CHARS)))

-----------------------------------------------------------------------------
(* Styling block.  STYLING_FIELDS (constants.js) is a list of              *)
(* [key, byteOffset] descriptors; styling maps a key to Some(number) or    *)
(* to None when it holds no number.                                        *)

FieldKeys(fields) == {fields[i].key : i \in DOMAIN fields}

\* the byteOffset of the last descriptor with this key (a later entry of the
\* loop overwrites styling[key])
FieldOffset(fields, key) ==
    LET i == CHOOSE j \in DOMAIN fields :
                 /\ fields[j].key = key
                 /\ \A k \in DOMAIN fields : fields[k].key = key => k <= j
    IN  fields[i].byteOffset

readStyling(b, c, fields) ==
    LET base == c.stylingOffset
    IN  IF base + STYLING_LENGTH > b.len THEN Err("OutOfRange")
        ELSE Ok([k \in FieldKeys(fields) |-> Load(b, base + FieldOffset(fields, k))])

\* the stores writeStyling makes for one descriptor
FieldStores(base, field, styling) ==
    LET idx   == base + field.byteOffset
        value == IF field.key \in DOMAIN styling THEN styling[field.key] ELSE None
    IN  IF IsNone(value) THEN <<>>
        ELSE << <<idx, BitAnd(Get(value), 255)>> >>
             \o (IF idx + 1 < base + STYLING_LENGTH THEN << <<idx + 1, 0>> >> ELSE <<>>)

RECURSIVE StylingStores(_, _, _)
StylingStores(base, fields, styling) ==
    IF fields = <<>> THEN <<>>
    ELSE FieldStores(base, Head(fields), styling)
         \o StylingStores(base, Tail(fields), styling)

writeStyling(b, c, fields, styling) ==
    LET base == c.stylingOffset
    IN  IF base + STYLING_LENGTH > b.len THEN Threw("OutOfRange", b)
        ELSE Wrote(StoreAll(b, StylingStores(base, fields, styling)))

-----------------------------------------------------------------------------
(* Decks.  A deck is [bakuganSlots, gateCards, abilityCards], each a       *)
(* sequence of at most three slots; a slot past the end is missing.        *)

\* ctx.deckOffsets[deckIndex], undefined outside the array
DeckBase(c, deckIndex) ==
    IF deckIndex + 1 \in DOMAIN c.deckOffsets
    THEN Some(c.deckOffsets[deckIndex + 1]) ELSE None

DecodeBakuganSlot(v) ==
    IF v = 65535 THEN [bakuganId |-> None, attributeId |-> None]
    ELSE [bakuganId |-> Some(v \div 6), attributeId |-> Some(v % 6)]

\* Faulty variant of DecodeCardSlot: the base id is one too small.
DecodeCardSlotOffByOne(v) ==
    IF v = 65535 THEN [cardId |-> None]
    ELSE [cardId |-> Some(v + DECK_CARD_BASE_ID - 1)]

DecodeCardSlot(v) ==
    IF v = 65535 THEN [cardId |-> None]
    ELSE [cardId |-> Some(v + DECK_CARD_BASE_ID)]

readDeck(b, c, deckIndex) ==
    LET base == DeckBase(c, deckIndex)
    IN  IF IsNone(base) THEN Err("InvalidDeckIndex")
        ELSE IF Get(base) + DECK_LENGTH > b.len THEN Err("OutOfRange")
        ELSE Ok([ bakuganSlots |->
                    [i \in 1..3 |-> DecodeBakuganSlot(readU16(b, Get(base) + (i - 1) * 2, c))],
                  gateCards |->
                    [i \in 1..3 |-> DecodeCardSlot(readU16(b, Get(base) + 12 + (i - 1) * 2, c))],
                  abilityCards |->
                    [i \in 1..3 |-> DecodeCardSlot(readU16(b, Get(base) + 24 + (i - 1) * 2, c))] ])

\* deck.bakuganSlots?.[i]
SlotAt(slots, i) == IF i + 1 \in DOMAIN slots THEN Some(slots[i + 1]) ELSE None

\* Faulty variant of EncodeBakuganSlot: id and attribute change places.
EncodeBakuganSlotSwapped(slot) ==
    IF IsNone(slot) \/ IsNone(Get(slot).bakuganId) \/ IsNone(Get(slot).attributeId)
    THEN None
    ELSE Some(6 * Get(Get(slot).attributeId) + Get(Get(slot).bakuganId))

\* the value handed to writeSlot for bakugan slot i: null or 6*id + attribute
EncodeBakuganSlot(slot) ==
    IF IsNone(slot) \/ IsNone(Get(slot).bakuganId) \/ IsNone(Get(slot).attributeId)
    THEN None
    ELSE Some(6 * Get(Get(slot).bakuganId) + Get(Get(slot).attributeId))

\* the value handed to writeSlot for a card slot: null or cardId - base id
EncodeCardSlot(slot) ==
    IF IsNone(slot) \/ IsNone(Get(slot).cardId) THEN None
    ELSE Some(Get(Get(slot).cardId) - DECK_CARD_BASE_ID)

\* Faulty variant of writeSlot: a null value is stored as 0.
writeSlotNullAsZero(offset, valueOrNull, c) ==
    IF IsNone(valueOrNull) THEN U16Stores(offset, 0, c)
    ELSE U16Stores(offset, Get(valueOrNull), c)

writeSlot(offset, valueOrNull, c) ==
    IF IsNone(valueOrNull) THEN U16Stores(offset, 65535, c)
    ELSE U16Stores(offset, Get(valueOrNull), c)

\* Faulty variant of PadStores: the first byte of the group is left alone.
PadStoresSkipFirst(base, from, to) ==
    [k \in 1..(to - from - 1) |-> <<base + from + k, 255>>]

\* bytes[base + i] = 0xff for i = from .. to - 1
PadStores(base, from, to) == [k \in 1..(to - from) |-> <<base + from + k - 1, 255>>]

DeckStores(base, c, deck) ==
    writeSlot(base + 0, EncodeBakuganSlot(SlotAt(deck.bakuganSlots, 0)), c)
    \o writeSlot(base + 2, EncodeBakuganSlot(SlotAt(deck.bakuganSlots, 1)), c)
    \o writeSlot(base + 4, EncodeBakuganSlot(SlotAt(deck.bakuganSlots, 2)), c)
    \o PadStores(base, 6, 12)
    \o writeSlot(base + 12, EncodeCardSlot(SlotAt(deck.gateCards, 0)), c)
    \o writeSlot(base + 14, EncodeCardSlot(SlotAt(deck.gateCards, 1)), c)
    \o writeSlot(base + 16, EncodeCardSlot(SlotAt(deck.gateCards, 2)), c)
    \o PadStores(base, 18, 24)
    \o writeSlot(base + 24, EncodeCardSlot(SlotAt(deck.abilityCards, 0)), c)
    \o writeSlot(base + 26, EncodeCardSlot(SlotAt(deck.abilityCards, 1)), c)
    \o writeSlot(base + 28, EncodeCardSlot(SlotAt(deck.abilityCards, 2)), c)
    \o PadStores(base, 30, 36)

writeDeck(b, c, deckIndex, deck) ==
    LET base == DeckBase(c, deckIndex)
    IN  IF IsNone(base) THEN Threw("InvalidDeckIndex", b)
        ELSE IF Get(base) + DECK_LENGTH > b.len THEN Threw("OutOfRange", b)
        ELSE Wrote(StoreAll(b, DeckStores(Get(base), c, deck)))

-----------------------------------------------------------------------------
(* Stats.  A stats field is Some(number), or None when it is missing or    *)
(* NaN; opponentWins and attributeUsage are Some(sequence of such) or None *)
(* when they are no array.                                                 *)

ByteCounters ==
    <<"battles", "wins", "losses", "sphereAttacks", "doubleStands",
      "oneVsOne", "battleRoyale", "tagTeam">>

\* bytes[o] ?? 0
LoadOr0(b, o) == OrElse(Load(b, o), 0)

readStats(b, c) ==
    IF IsNone(c.statsOffsets) THEN Err("StatsUnavailable")
    ELSE LET o == Get(c.statsOffsets)
         IN  Ok([ rankingPoints |-> readU24(b, o.rankingPoints, c),
                  bakuganPoints |-> readU24(b, o.bakuganPoints, c),
                  battles       |-> LoadOr0(b, o.battles),
                  wins          |-> LoadOr0(b, o.wins),
                  losses        |-> LoadOr0(b, o.losses),
                  sphereAttacks |-> LoadOr0(b, o.sphereAttacks),
                  doubleStands  |-> LoadOr0(b, o.doubleStands),
                  oneVsOne      |-> LoadOr0(b, o.oneVsOne),
                  battleRoyale  |-> LoadOr0(b, o.battleRoyale),
                  tagTeam       |-> LoadOr0(b, o.tagTeam),
                  opponentWins  |->
                    IF "opponentWins" \in DOMAIN o
                    THEN [i \in 1..16 |-> LoadOr0(b, o.opponentWins + i - 1)]
                    ELSE <<>>,
                  attributeUsage |->
                    IF "attributeUsageBase" \in DOMAIN o
                    THEN [i \in 1..6 |-> LoadOr0(b, o.attributeUsageBase + (i - 1) * 2)]
                    ELSE <<>> ])

Min(a, b) == IF a < b THEN a ELSE b

Max(a, b) == IF a > b THEN a ELSE b

\* NaN and undefined give 0; otherwise Math.max(0, Math.min(255, n | 0))
clampByte(n) == IF IsNone(n) THEN 0 ELSE Max(0, Min(255, ToInt32(Get(n))))

\* arr[i] ?? 0 for an array of nullable numbers
ElemOr0(arr, i) ==
    IF i + 1 \in DOMAIN arr /\ ~IsNone(arr[i + 1]) THEN arr[i + 1] ELSE Some(Num(0))

StatsStores(o, c, stats) ==
    U24Stores(o.rankingPoints, OrElse(stats.rankingPoints, 0), c)
    \o U24Stores(o.bakuganPoints, OrElse(stats.bakuganPoints, 0), c)
    \o [i \in 1..Len(ByteCounters) |->
            <<o[ByteCounters[i]], clampByte(stats[ByteCounters[i]])>>]
    \o (IF "opponentWins" \in DOMAIN o /\ ~IsNone(stats.opponentWins)
        THEN [i \in 1..16 |->
                <<o.opponentWins + i - 1, clampByte(ElemOr0(Get(stats.opponentWins), i - 1))>>]
        ELSE <<>>)
    \o (IF "attributeUsageBase" \in DOMAIN o /\ ~IsNone(stats.attributeUsage)
        THEN [i \in 1..12 |->
                IF i % 2 = 1
                THEN <<o.attributeUsageBase + i - 1,
                       clampByte(ElemOr0(Get(stats.attributeUsage), (i - 1) \div 2))>>
                ELSE <<o.attributeUsageBase + i - 1, 0>>]
        ELSE <<>>)

\* Faulty variant of writeStats: without configured offsets it writes at 0.
writeStatsZeroOffsets(b, c, stats) ==
    Wrote(StoreAll(b, StatsStores(IF IsNone(c.statsOffsets) THEN [k \in StatsKeys |-> 0]
                                  ELSE Get(c.statsOffsets), c, stats)))

writeStats(b, c, stats) ==
    IF IsNone(c.statsOffsets) THEN Threw("StatsUnavailable", b)
    ELSE Wrote(StoreAll(b, StatsStores(Get(c.statsOffsets), c, stats)))

-----------------------------------------------------------------------------
(* Deck names: 10 characters, stored as [char, 0x00] pairs *)

\* ctx.deckNameOffsets[deckIndex], undefined outside the array
DeckNameBase(c, deckIndex) ==
    IF deckIndex + 1 \in DOMAIN Get(c.deckNameOffsets)
    THEN Some(Get(c.deckNameOffsets)[deckIndex + 1]) ELSE None

\* Faulty variant of DeckNameError: a region that starts below 0 is let through.
DeckNameErrorNoLowerBound(b, c, deckIndex) ==
    IF IsNone(c.deckNameOffsets) THEN "DeckNameNotConfigured"
    ELSE IF IsNone(DeckNameBase(c, deckIndex)) THEN "NoDeckNameOffset"
    ELSE IF Get(DeckNameBase(c, deckIndex)) + 20 > b.len THEN "OutOfRange"
    ELSE ""

\* the error readDeckName and writeDeckName throw, "" for none
DeckNameError(b, c, deckIndex) ==
    IF IsNone(c.deckNameOffsets) THEN "DeckNameNotConfigured"
    ELSE IF IsNone(DeckNameBase(c, deckIndex)) THEN "NoDeckNameOffset"
    ELSE IF Get(DeckNameBase(c, deckIndex)) < 0
            \/ Get(DeckNameBase(c, deckIndex)) + 20 > b.len THEN "OutOfRange"
    ELSE ""

readDeckName(b, c, deckIndex) ==
    IF DeckNameError(b, c, deckIndex) # "" THEN Err(DeckNameError(b, c, deckIndex))
    ELSE Ok(ReadChars(b, Get(DeckNameBase(c, deckIndex)), 0, DECK_NAME_MAX_CHARS))

writeDeckName(b, c, deckIndex, name) ==
    IF DeckNameError(b, c, deckIndex) # "" THEN Threw(DeckNameError(b, c, deckIndex), b)
    ELSE Wrote(StoreAll(b, NameStores(Get(DeckNameBase(c, deckIndex)),
                                      Slice(name, DECK_NAME_MAX_CHARS), 0,
                                      DECK_NAME_MAX_CHARS)))

-----------------------------------------------------------------------------
(* Inputs of the calls *)

MaxOps == 2

PlatformInputs == PLATFORMS \cup {"gamecube", "constructor", "isPrototypeOf"}

SlotInputs == {-1, 0, 1, 2, 3, 5, 9}

\* <<length, byte held everywhere>>: a file that ends inside the x360 player
\* name and inside the wii entry (0, 1), one that ends inside the ps3 stats
\* block, and two that hold four saves of every platform
FileInputs == {<<300, 0>>, <<11130, 255>>, <<57000, 0>>, <<57000, 255>>}

EntryKeys == {<<0, 1>>, <<5, 2>>, <<500, 0>>}

RawInputs ==
    { [id |-> Some(77), attribute |-> Some(4),
       power |-> Some(300), speed |-> Some(255), defense |-> Some(0),
       acceleration |-> Some(30), endurance |-> Some(40), jump |-> Some(50),
       level |-> Some(254)],
      [id |-> None, attribute |-> None,
       power |-> Some(65535), speed |-> None, defense |-> None,
       acceleration |-> None, endurance |-> None, jump |-> None,
       level |-> None] }

CardIds == {0, 48, 57000}

NameInputs == {<<>>, <<65, 66>>, <<65, 1, 127, 126, 32, 67, 68, 69, 70, 71, 72>>}

DeckNameInputs == {<<65, 66>>, <<65, 1, 127, 126, 32, 67, 68, 69, 70, 71, 72>>}

FieldLists ==
    { << [key |-> "a", byteOffset |-> 0], [key |-> "b", byteOffset |-> 2],
         [key |-> "c", byteOffset |-> 44] >>,
      << [key |-> "b", byteOffset |-> 4], [key |-> "a", byteOffset |-> 3] >> }

StylingInputs ==
    { [a |-> Some(7), b |-> Some(300), c |-> Some(255)],
      [a |-> None, b |-> Some(1), c |-> None],
      [a |-> Some(7), b |-> None, c |-> None] }

BSlot(b, a) == [bakuganId |-> b, attributeId |-> a]

CSlot(id) == [cardId |-> id]

DeckInputs ==
    { [ bakuganSlots |-> <<BSlot(Some(5), Some(2)), BSlot(None, None), BSlot(Some(1), Some(5))>>,
        gateCards    |-> <<CSlot(Some(10300)), CSlot(None), CSlot(Some(10232))>>,
        abilityCards |-> <<CSlot(Some(75766)), CSlot(Some(10233))>> ],
      [ bakuganSlots |-> <<>>, gateCards |-> <<>>, abilityCards |-> <<>> ],
      [ bakuganSlots |-> <<BSlot(Some(10922), Some(3)), BSlot(Some(1), None)>>,
        gateCards    |-> <<CSlot(Some(10231))>>,
        abilityCards |-> <<CSlot(None), CSlot(Some(10500))>> ] }

DeckIndexes == {0, 1, 2}

StatsInputs ==
    { [ rankingPoints |-> Some(16777300), bakuganPoints |-> Some(66051),
        battles |-> Some(Num(300)), wins |-> Some(Num(7)), losses |-> Some(Num(-1)),
        sphereAttacks |-> Some(Num(255)), doubleStands |-> None,
        oneVsOne |-> Some(Big(1, 0)), battleRoyale |-> Some(Num(1)),
        tagTeam |-> Some(Num(2)),
        opponentWins |-> Some(<<Some(Num(1)), Some(Num(256)), None>>),
        attributeUsage |-> Some(<<Some(Num(9)), Some(Num(8)), Some(Num(7)),
                                  Some(Num(6)), Some(Num(5)), Some(Num(4))>>) ],
      [ rankingPoints |-> None, bakuganPoints |-> Some(1),
        battles |-> Some(Num(0)), wins |-> Some(Num(0)), losses |-> Some(Num(0)),
        sphereAttacks |-> Some(Num(0)), doubleStands |-> Some(Num(0)),
        oneVsOne |-> Some(Num(0)), battleRoyale |-> Some(Num(0)),
        tagTeam |-> Some(Num(0)),
        opponentWins |-> None, attributeUsage |-> None ] }

-----------------------------------------------------------------------------
(* The caller: one file, one context, and the codec calls made on them.    *)
(* last is the last call: its name, its arguments, the error it threw ("" *)
(* for none) and the value it returned; prev is the buffer before it.      *)

\* The lists and descriptors of constants.js as the editor uses them: the ids
\* of bakuganList and attributeList in ascending order, the ids of cardList
\* (cards as the deck codec numbers them), those of its Gold, Silver and
\* Bronze cards, and the descriptors of STYLING_FIELDS.
bakuganList == <<0, 5>>

attributeList == <<0, 2>>

cardList == <<10232, 10300>>

gateCardOptions == <<10232>>

STYLING_FIELDS ==
    << [key |-> "a", byteOffset |-> 0], [key |-> "b", byteOffset |-> 2],
       [key |-> "c", byteOffset |-> 44] >>

\* ui is the state of the editor component; the codec calls leave it as the
\* component starts: no file, ps3, slot 0, the first bakugan and attribute
\* selected, every view empty, no load under way, no update and no effect
\* waiting.  batches is the scheduling of the React the editor is built
\* with, which the sources do not fix: TRUE when the render of an event
\* handler also commits the updates that wait (React 19), FALSE when it
\* leaves them to a later render (React 18)
EditorInitial ==
    [fileName |-> "", parsed |-> None, platform |-> "ps3", saveSlot |-> 0,
     selectedBakuganId |-> bakuganList[1], selectedAttributeId |-> attributeList[1],
     entry |-> None, editableStats |-> None, cardStates |-> None,
     playerName |-> <<>>, styling |-> None, decks |-> None, deckNames |-> None,
     stats |-> None, pending |-> <<>>, queue |-> <<>>, effects |-> {},
     batches |-> FALSE]

Call(op, args, res) == [op |-> op, args |-> args, err |-> res.err, val |-> res.val]

\* Faulty variant of DoRead: the read clears the first byte it was given.
DoReadClearing(op, args, res) ==
    /\ nops < MaxOps
    /\ last' = Call(op, args, res)
    /\ prev' = bytes
    /\ bytes' = Store(bytes, 0, IF ByteAt(bytes, 0) = 0 THEN 1 ELSE 0)
    /\ nops' = nops + 1
    /\ UNCHANGED <<ctx, ui>>

\* a read: the buffer is not assigned
DoRead(op, args, res) ==
    /\ nops < MaxOps
    /\ last' = Call(op, args, res)
    /\ prev' = bytes
    /\ nops' = nops + 1
    /\ UNCHANGED <<bytes, ctx, ui>>

\* a write: the buffer is what the call left of it
DoWrite(op, args, res) ==
    /\ nops < MaxOps
    /\ last' = [op |-> op, args |-> args, err |-> res.err, val |-> None]
    /\ prev' = bytes
    /\ bytes' = res.bytes
    /\ nops' = nops + 1
    /\ UNCHANGED <<ctx, ui>>

Init ==
    /\ \E f \in FileInputs : bytes = parseSaveFile(f[1], f[2])
    /\ \E p \in PLATFORMS, s \in 0..3 : ctx = getSaveContext(p, s).val
    /\ last = Call("parseSaveFile", <<>>, Ok(None))
    /\ prev = bytes
    /\ nops = 0
    /\ ui = EditorInitial

ReadBakuganEntry ==
    \E k \in EntryKeys :
        DoRead("readBakuganEntry", [bakuganId |-> k[1], attributeId |-> k[2]],
               readBakuganEntry(bytes, ctx, k[1], k[2]))

WriteBakuganEntry ==
    \E k \in EntryKeys, raw \in RawInputs :
        DoWrite("writeBakuganEntry", [bakuganId |-> k[1], attributeId |-> k[2], raw |-> raw],
                writeBakuganEntry(bytes, ctx, k[1], k[2], raw))

ReadCardFlag ==
    \E id \in CardIds :
        DoRead("readCardFlag", [cardId |-> id], readCardFlag(bytes, ctx, id))

WriteCardFlag ==
    \E id \in CardIds, u \in BOOLEAN :
        DoWrite("writeCardFlag", [cardId |-> id, unlocked |-> u],
                writeCardFlag(bytes, ctx, id, u))

ReadPlayerName == DoRead("readPlayerName", <<>>, readPlayerName(bytes, ctx))

WritePlayerName ==
    \E name \in NameInputs :
        DoWrite("writePlayerName", [name |-> name], writePlayerName(bytes, ctx, name))

ReadStyling ==
    \E f \in FieldLists :
        DoRead("readStyling", [fields |-> f], readStyling(bytes, ctx, f))

WriteStyling ==
    \E f \in FieldLists, st \in StylingInputs :
        DoWrite("writeStyling", [fields |-> f, styling |-> st],
                writeStyling(bytes, ctx, f, st))

ReadDeck ==
    \E i \in DeckIndexes :
        DoRead("readDeck", [deckIndex |-> i], readDeck(bytes, ctx, i))

WriteDeck ==
    \E i \in DeckIndexes, d \in DeckInputs :
        DoWrite("writeDeck", [deckIndex |-> i, deck |-> d], writeDeck(bytes, ctx, i, d))

ReadStats == DoRead("readStats", <<>>, readStats(bytes, ctx))

WriteStats ==
    \E st \in StatsInputs :
        DoWrite("writeStats", [stats |-> st], writeStats(bytes, ctx, st))

ReadDeckName ==
    \E i \in DeckIndexes :
        DoRead("readDeckName", [deckIndex |-> i], readDeckName(bytes, ctx, i))

WriteDeckName ==
    \E i \in DeckIndexes, name \in DeckNameInputs :
        DoWrite("writeDeckName", [deckIndex |-> i, name |-> name],
                writeDeckName(bytes, ctx, i, name))

Next ==
    \/ ReadBakuganEntry
    \/ WriteBakuganEntry
    \/ ReadCardFlag
    \/ WriteCardFlag
    \/ ReadPlayerName
    \/ WritePlayerName
    \/ ReadStyling
    \/ WriteStyling
    \/ ReadDeck
    \/ WriteDeck
    \/ ReadStats
    \/ WriteStats
    \/ ReadDeckName
    \/ WriteDeckName

Spec == Init /\ [][Next]_vars

-----------------------------------------------------------------------------
(* The save context resolver on its own: the caller picks a platform and a *)
(* slot; a context that was resolved replaces the one in use.              *)

InitCtx ==
    /\ bytes = parseSaveFile(57000, 0)
    /\ ctx = getSaveContext("ps3", 0).val
    /\ last = Call("parseSaveFile", <<>>, Ok(None))
    /\ prev = bytes
    /\ nops = 0
    /\ ui = EditorInitial

GetSaveContext ==
    \E p \in PlatformInputs, s \in SlotInputs :
        /\ last' = Call("getSaveContext", [platform |-> p, saveSlot |-> s],
                        getSaveContext(p, s))
        /\ ctx' = IF getSaveContext(p, s).err = "" THEN getSaveContext(p, s).val ELSE ctx
        /\ UNCHANGED <<bytes, prev, nops, ui>>

NextCtx == GetSaveContext

SpecCtx == InitCtx /\ [][NextCtx]_vars

-----------------------------------------------------------------------------
(* The byte primitives on their own, on a three-byte buffer *)

ByteSamples == {1, 2, 3, 255}

WordInputs == {0, 258, 513, 65535, 66051, 16777300, -1}

InitPrim ==
    /\ \E b0 \in ByteSamples, b1 \in ByteSamples, b2 \in ByteSamples :
           bytes = StoreAll(parseSaveFile(3, 0), << <<0, b0>>, <<1, b1>>, <<2, b2>> >>)
    /\ \E p \in PLATFORMS : ctx = getSaveContext(p, 0).val
    /\ last = Call("parseSaveFile", <<>>, Ok(None))
    /\ prev = bytes
    /\ nops = 0
    /\ ui = EditorInitial

PrimRead(op, args, v) ==
    /\ last' = Call(op, args, Ok(v))
    /\ prev' = bytes
    /\ UNCHANGED <<bytes, ctx, nops, ui>>

PrimWrite(op, args, b) ==
    /\ last' = Call(op, args, Ok(None))
    /\ prev' = bytes
    /\ bytes' = b
    /\ UNCHANGED <<ctx, nops, ui>>

ReadU16 ==
    \E o \in {0, 1} : PrimRead("readU16", [offset |-> o], readU16(bytes, o, ctx))

ReadU24 == PrimRead("readU24", [offset |-> 0], readU24(bytes, 0, ctx))

WriteU16 ==
    \E o \in {0, 1}, v \in WordInputs :
        PrimWrite("writeU16", [offset |-> o, value |-> v], writeU16(bytes, o, v, ctx))

WriteU24 ==
    \E v \in WordInputs :
        PrimWrite("writeU24", [offset |-> 0, value |-> v], writeU24(bytes, 0, v, ctx))

NextPrim ==
    \/ ReadU16
    \/ ReadU24
    \/ WriteU16
    \/ WriteU24

SpecPrim == InitPrim /\ [][NextPrim]_vars

-----------------------------------------------------------------------------
(* The deck-name codec on contexts of the caller's making.  Besides the    *)
(* contexts getSaveContext resolves, the caller hands in one without       *)
(* deckNameOffsets (a profile with no deckNameBackOffset) and one whose    *)
(* first name region starts below 0 (a back offset larger than the deck    *)
(* offset).                                                                *)

DeckNameContexts ==
    { getSaveContext("ps3", 0).val,
      getSaveContext("ps2", 1).val,
      [getSaveContext("wii", 0).val EXCEPT !.deckNameOffsets = None],
      [getSaveContext("x360", 0).val EXCEPT !.deckNameOffsets = Some(<<-5, 290>>)] }

InitDeckName ==
    /\ \E f \in FileInputs : bytes = parseSaveFile(f[1], f[2])
    /\ ctx \in DeckNameContexts
    /\ last = Call("parseSaveFile", <<>>, Ok(None))
    /\ prev = bytes
    /\ nops = 0
    /\ ui = EditorInitial

NextDeckName ==
    \/ ReadDeckName
    \/ WriteDeckName

SpecDeckName == InitDeckName /\ [][NextDeckName]_vars


-----------------------------------------------------------------------------
(* The editor component (BakuganSaveEditor).  ui holds its React state as  *)
(* the last render committed it: fileName, parsed (None, or Some(name of   *)
(* the file whose bytes are held), the bytes themselves being the variable *)
(* bytes), platform, saveSlot, the selected bakugan and attribute, and the *)
(* views read from the buffer: entry, editableStats, cardStates,           *)
(* playerName, styling, decks, deckNames and stats.  ctx is the memoised   *)
(* context of that render: None for null.  A handler reads its closure,    *)
(* which is this committed state.                                          *)
(*                                                                         *)
(* pending lists the files whose arrayBuffer() promise is not settled, in  *)
(* the order the reads were started.  queue lists, in the order they were  *)
(* made, the state updates no render has committed yet: those made after   *)
(* the await of handleFile and those made by passive effects.  effects     *)
(* names the passive effects of the last render that have not run:         *)
(* "refresh" (the effect that calls refreshEntry), "entry" (the effect on  *)
(* entry) and "view" (the card, appearance and stats effects).             *)
(*                                                                         *)
(* The steps are those of React's scheduling of a concurrent root:         *)
(*  - an event handler runs to its end and its updates are rendered in the *)
(*    same task.  The effects that still wait run before that render, the  *)
(*    effects the render schedules run right after it, both with the       *)
(*    buffer as the handler left it; what they set joins the queue.  An    *)
(*    update the handler makes to a state that has an update in the queue  *)
(*    is committed at once and also kept in the queue, behind that update; *)
(*  - the code after the await of handleFile only queues its updates;      *)
(*  - Render commits the queue: the effects that still wait run first and  *)
(*    what they set is committed with it; the effects this render          *)
(*    schedules wait;                                                      *)
(*  - FlushEffects runs the waiting effects on their own.                  *)
(* A control that has no guard of its own in its handler is taken to be    *)
(* used only while the component renders it, whichever tab is shown.       *)
(* error, isDragging, activeTab, cardFilter and the debug viewer's state   *)
(* are display state no modelled handler reads; they are left out.         *)

MaxUiSteps == 4

\* files that hold every save slot (all bytes 0, all bytes 255), and one that
\* ends between the two card flags of ps2 slot 0
EditorFiles ==
    { [name |-> "a.sav", len |-> 57000, fill |-> 0],
      [name |-> "b.sav", len |-> 57000, fill |-> 255],
      [name |-> "d.sav", len |-> 12300, fill |-> 0] }

FileNamed(name) == CHOOSE f \in EditorFiles : f.name = name

\* the sequence without its element i
RemoveAt(seq, i) == SubSeq(seq, 1, i - 1) \o SubSeq(seq, i + 1, Len(seq))

\* useMemo: null without a file, null when getSaveContext throws
EditorCtx(u) ==
    IF IsNone(u.parsed) THEN None
    ELSE LET r == getSaveContext(u.platform, u.saveSlot)
         IN  IF r.err # "" THEN None ELSE Some(r.val)

clamp(value, min, max) ==
    IF value < min THEN min ELSE IF value > max THEN max ELSE value

\* Math.round(stored / 10) clamped into 1..5, for a byte
statDisplayFromStored(stored) == clamp((stored + 5) \div 10, 1, 5)

\* obj[key] ?? d, for an object that may lack the key
KeyOr(obj, key, d) == IF key \in DOMAIN obj THEN obj[key] ELSE d

statStoredFromDisplay(display) == clamp(display, 1, 5) * 10

\* a call of a state setter: the state it sets, the function applied to the
\* state before ("set" for a plain value) and what it was called with; kept
\* marks an update a render has committed already and the queue still holds
Update(field, fn, arg) == [field |-> field, fn |-> fn, arg |-> arg, kept |-> FALSE]

SetTo(field, value) == Update(field, "set", value)

\* (prev) => ({ ...prev, [key]: value }): spreading null gives no key
Spread(before, key, value) ==
    LET old == IF IsNone(before) THEN [k \in {} |-> 0] ELSE Get(before)
    IN  Some([k \in DOMAIN old \cup {key} |-> IF k = key THEN value ELSE old[k]])

\* prev ? prev.map((c) => (c.id === cardId ? { ...c, unlocked } : c)) : prev
ToggledStates(states, i, unlocked) ==
    IF IsNone(states) THEN states
    ELSE Some([k \in DOMAIN Get(states) |->
                  IF cardList[k] = cardList[i] THEN unlocked ELSE Get(states)[k]])

\* prev ? prev.map((c) => ({ ...c, unlocked })) : prev
AllStates(states, unlocked) ==
    IF IsNone(states) THEN states
    ELSE Some([k \in DOMAIN Get(states) |-> unlocked])

\* updateDeckSlot: { ...slots[slotIndex], ...changes } in one section of one deck
UpdateDeckSlot(decks, deckIndex, section, slotIndex, changes) ==
    IF IsNone(decks) THEN decks
    ELSE LET old == Get(decks)[deckIndex + 1][section][slotIndex + 1]
             new == [k \in DOMAIN old |-> IF k \in DOMAIN changes THEN changes[k] ELSE old[k]]
         IN  Some([Get(decks) EXCEPT ![deckIndex + 1][section][slotIndex + 1] = new])

\* the updater of handleDeckNameChange: (prev || ["", ""]) with one name replaced
DeckNameChanged(before, deckIndex, value) ==
    Some([OrElse(before, << <<>>, <<>> >>) EXCEPT ![deckIndex + 1] = value])

\* the updater of handleOpponentWinChange: prev.opponentWins, or sixteen
\* zeros, with one entry replaced; an entry the copy skips reads as 0
OpponentWinChanged(before, index, value) ==
    IF IsNone(before) THEN before
    ELSE LET base == KeyOr(Get(before), "opponentWins", [i \in 1..16 |-> 0])
             n    == IF Len(base) > index THEN Len(base) ELSE index + 1
             copy == [i \in 1..n |-> IF i = index + 1 THEN value
                                     ELSE IF i <= Len(base) THEN base[i] ELSE 0]
         IN  Spread(before, "opponentWins", copy)

\* the state an update leaves, given the state before it
ApplyUpdate(up, before) ==
    CASE up.fn = "set"         -> up.arg
      [] up.fn = "spread"      -> Spread(before, up.arg[1], up.arg[2])
      [] up.fn = "toggle"      -> ToggledStates(before, up.arg[1], up.arg[2])
      [] up.fn = "all"         -> AllStates(before, up.arg)
      [] up.fn = "deckSlot"    -> UpdateDeckSlot(before, up.arg[1], up.arg[2], up.arg[3], up.arg[4])
      [] up.fn = "deckName"    -> DeckNameChanged(before, up.arg[1], up.arg[2])
      [] up.fn = "opponentWin" -> OpponentWinChanged(before, up.arg[1], up.arg[2])

\* the updates applied in their order
RECURSIVE Applied(_, _)
Applied(u, ups) ==
    IF ups = <<>> THEN u
    ELSE Applied([u EXCEPT ![Head(ups).field] = ApplyUpdate(Head(ups), @)], Tail(ups))

\* refreshEntry(bakuganId, attributeId): the setter calls it makes
RefreshEntry(u, b, c, bakuganId, attributeId) ==
    IF IsNone(u.parsed) \/ IsNone(c)
    THEN <<SetTo("entry", None), SetTo("editableStats", None)>>
    ELSE LET r == readBakuganEntry(b, Get(c), bakuganId, attributeId)
         IN  IF r.err # ""
             THEN <<SetTo("entry", None), SetTo("editableStats", None)>>
             ELSE <<SetTo("entry", Some(r.val))>>

\* the effect on entry: the editable stats shown for an entry
EditableFromEntry(entry) ==
    IF IsNone(entry) THEN None
    ELSE LET raw == Get(entry).raw
         IN  Some([ power        |-> clamp(raw.power, 0, 1000),
                    speed        |-> statDisplayFromStored(OrElse(raw.speed, 10)),
                    defense      |-> statDisplayFromStored(OrElse(raw.defense, 10)),
                    acceleration |-> statDisplayFromStored(OrElse(raw.acceleration, 10)),
                    endurance    |-> statDisplayFromStored(OrElse(raw.endurance, 10)),
                    jump         |-> statDisplayFromStored(OrElse(raw.jump, 10)),
                    level        |-> clamp(OrElse(raw.level, 1), 1, 10) ])

\* the card effect: every flag read, or null when there is no file or a read
\* throws
CardEffect(b, c, parsed) ==
    IF IsNone(parsed) \/ IsNone(c) THEN None
    ELSE IF \E i \in DOMAIN cardList : readCardFlag(b, Get(c), cardList[i]).err # ""
         THEN None
    ELSE Some([i \in DOMAIN cardList |-> readCardFlag(b, Get(c), cardList[i]).val])

\* the decks and the deck names as the appearance effect and handleSaveDecks
\* read them: <<decks, deckNames>>, decks None when a readDeck throws,
\* deckNames None when a readDeckName throws
ReadDecks(b, c) ==
    LET d1 == readDeck(b, c, 0)
        d2 == readDeck(b, c, 1)
        n1 == readDeckName(b, c, 0)
        n2 == readDeckName(b, c, 1)
    IN  IF d1.err # "" \/ d2.err # "" THEN <<None, None>>
        ELSE <<Some(<<d1.val, d2.val>>),
               IF n1.err # "" \/ n2.err # "" THEN None ELSE Some(<<n1.val, n2.val>>)>>

\* the setter calls of the card, appearance and stats effects, in the order
\* of the source
ViewEffects(u, b, c) ==
    IF IsNone(u.parsed) \/ IsNone(c)
    THEN <<SetTo("cardStates", None), SetTo("playerName", <<>>), SetTo("styling", None),
           SetTo("decks", None), SetTo("deckNames", None), SetTo("stats", None)>>
    ELSE LET name == readPlayerName(b, Get(c))
             st   == readStyling(b, Get(c), STYLING_FIELDS)
             dk   == ReadDecks(b, Get(c))
             s    == readStats(b, Get(c))
         IN  <<SetTo("cardStates", CardEffect(b, c, u.parsed)),
               SetTo("playerName", IF name.err # "" THEN <<>> ELSE name.val),
               SetTo("styling", IF st.err # "" THEN None ELSE Some(st.val)),
               SetTo("decks", dk[1]),
               SetTo("deckNames", dk[2]),
               SetTo("stats", IF s.err # "" THEN None ELSE Some(s.val))>>

\* the setter calls the effects named in es make when they run after the
\* render that committed u with the context c, on the buffer b: the refresh
\* effect, the effect on entry, then the card, appearance and stats effects
EffectUpdates(es, u, b, c) ==
    (IF "refresh" \in es
     THEN RefreshEntry(u, b, c, u.selectedBakuganId, u.selectedAttributeId) ELSE <<>>)
    \o (IF "entry" \in es THEN <<SetTo("editableStats", EditableFromEntry(u.entry))>> ELSE <<>>)
    \o (IF "view" \in es THEN ViewEffects(u, b, c) ELSE <<>>)

\* a render that applied ups gave the state named field another object than
\* u0 held: the last update of it is one no render had committed, and it is
\* not null after null
ObjectChanged(field, u0, ups, u1) ==
    /\ \E i \in DOMAIN ups :
           /\ ups[i].field = field
           /\ ~ups[i].kept
           /\ \A j \in DOMAIN ups : ups[j].field = field => j <= i
    /\ ~(IsNone(u0[field]) /\ IsNone(u1[field]))

\* the effects whose dependencies differ between the render of u0 and the
\* render of u1 that applied ups: parsed and ctx for all but the effect on
\* entry, the selected ids also for the refresh effect
EffectsOf(u0, ups, u1) ==
    LET parsedChanged == ObjectChanged("parsed", u0, ups, u1)
        ctxChanged == /\ \/ parsedChanged
                         \/ u0.platform # u1.platform
                         \/ u0.saveSlot # u1.saveSlot
                      /\ ~(IsNone(EditorCtx(u0)) /\ IsNone(EditorCtx(u1)))
    IN  (IF parsedChanged \/ ctxChanged THEN {"refresh", "view"} ELSE {})
        \cup (IF \/ u0.selectedBakuganId # u1.selectedBakuganId
                 \/ u0.selectedAttributeId # u1.selectedAttributeId
              THEN {"refresh"} ELSE {})
        \cup (IF ObjectChanged("entry", u0, ups, u1) THEN {"entry"} ELSE {})

\* Faulty variant of OnPlatformChange: the slot is not reset.
OnPlatformChangeKeepSlot(p) == <<SetTo("platform", p)>>

\* the platform selector's onChange: setPlatform(value); setSaveSlot(0)
OnPlatformChange(p) == <<SetTo("platform", p), SetTo("saveSlot", 0)>>

\* cardStates.forEach((card) => writeCardFlag(parsed.bytes, ctx, card.id, unlocked)),
\* from card i on: the first call that throws ends the loop, the stores made
\* before it stay
RECURSIVE WriteAllCards(_, _, _, _)
WriteAllCards(b, c, i, unlocked) ==
    IF i > Len(cardList) THEN Wrote(b)
    ELSE LET w == writeCardFlag(b, c, cardList[i], unlocked)
         IN  IF w.err # "" THEN w ELSE WriteAllCards(w.bytes, c, i + 1, unlocked)

\* rawToWrite of handleSaveStats: editableStats.power ?? 0, level ?? 1, the
\* others ?? 1
RawToWrite(entry, e) ==
    [entry.raw EXCEPT !.power        = Some(clamp(KeyOr(e, "power", 0), 0, 1000)),
                      !.level        = Some(clamp(KeyOr(e, "level", 1), 1, 10)),
                      !.speed        = Some(statStoredFromDisplay(KeyOr(e, "speed", 1))),
                      !.defense      = Some(statStoredFromDisplay(KeyOr(e, "defense", 1))),
                      !.acceleration = Some(statStoredFromDisplay(KeyOr(e, "acceleration", 1))),
                      !.endurance    = Some(statStoredFromDisplay(KeyOr(e, "endurance", 1))),
                      !.jump         = Some(statStoredFromDisplay(KeyOr(e, "jump", 1)))]

\* the writes of handleSaveDecks for deck idx: writeDeck, then writeDeckName
\* when there are deck names
SaveDeckWrites(b, c, decks, deckNames, idx) ==
    LET w == writeDeck(b, c, idx, decks[idx + 1])
    IN  IF w.err # "" \/ IsNone(deckNames) THEN w
        ELSE writeDeckName(w.bytes, c, idx, Get(deckNames)[idx + 1])

\* decks.forEach(...): the first call that throws ends the loop
SaveDecksWrites(b, c, decks, deckNames) ==
    LET w == SaveDeckWrites(b, c, decks, deckNames, 0)
    IN  IF w.err # "" THEN w ELSE SaveDeckWrites(w.bytes, c, decks, deckNames, 1)

\* the stats of the form as writeStats takes them; a key the form lacks is
\* undefined
StatsArgument(s) ==
    LET num(k) == IF k \in DOMAIN s THEN Some(Num(s[k])) ELSE None
        arr(k) == IF k \in DOMAIN s
                  THEN Some([i \in DOMAIN s[k] |-> Some(Num(s[k][i]))]) ELSE None
    IN  [ rankingPoints |-> IF "rankingPoints" \in DOMAIN s THEN Some(s.rankingPoints) ELSE None,
          bakuganPoints |-> IF "bakuganPoints" \in DOMAIN s THEN Some(s.bakuganPoints) ELSE None,
          battles       |-> num("battles"),
          wins          |-> num("wins"),
          losses        |-> num("losses"),
          sphereAttacks |-> num("sphereAttacks"),
          doubleStands  |-> num("doubleStands"),
          oneVsOne      |-> num("oneVsOne"),
          battleRoyale  |-> num("battleRoyale"),
          tagTeam       |-> num("tagTeam"),
          opponentWins  |-> arr("opponentWins"),
          attributeUsage |-> arr("attributeUsage") ]

\* what the form controls are set to
StatChangeInputs == {<<"power", 1234>>, <<"speed", 3>>}

\* the name input takes at most eight characters (maxLength)
PlayerNameInputs == {<<65, 233, 126, 32, 67, 68, 69, 70>>}

StylingChangeInputs == {<<"b", 7>>}

BakuganSlotInputs == {<<0, 0, "bakuganId", -1>>, <<1, 2, "bakuganId", 5>>,
                      <<1, 2, "attributeId", 2>>}

CardSlotInputs == {<<0, 0>>, <<1, 2>>}

\* the deck name input takes at most ten characters (maxLength)
DeckNameChangeInputs == {<<1, <<65, 233, 67, 68, 69, 70, 71, 72, 73, 74>>>>}

StatsFieldInputs == {<<"rankingPoints", 16777300>>, <<"wins", 300>>}

OpponentWinInputs == {<<0, 256>>}

\* one handler of the editor ran, or the code after an await: op and args
\* name it, err is the error it caught, val the editor state it started from
UiStep(op, args, err) ==
    /\ nops < MaxUiSteps
    /\ last' = [op |-> op, args |-> args, err |-> err, val |-> ui]
    /\ prev' = bytes
    /\ nops' = nops + 1

\* the buffer parsed holds after a render that applied ups and left u1: the
\* bytes as they were parsed when parsed was set, b otherwise
HeldBytes(b, ups, u1) ==
    IF \A i \in DOMAIN ups : ups[i].field # "parsed" THEN b
    ELSE IF IsNone(u1.parsed) THEN parseSaveFile(0, 0)
    ELSE parseSaveFile(FileNamed(Get(u1.parsed)).len, FileNamed(Get(u1.parsed)).fill)

\* an event handler that left the buffer b, made the updates made and has
\* the reads of reads under way, and its render.  The effects that waited
\* run before the render, with the state and context of the render before.
\* Under either scheduling the render commits the handler's updates and the
\* effects it schedules run after it, with its state and context, so that
\* what they set waits for a later render.  A React that batches commits in
\* this render every update that waited as well, in the order the calls were
\* made; one that does not leaves them in the queue, with the handler's
\* updates to a state that has an update waiting behind them
Event(op, args, err, b, made, reads) ==
    /\ UiStep(op, args, err)
    /\ \E flushed \in {EffectUpdates(ui.effects, ui, b, ctx)} :
       \E ups \in {IF ui.batches THEN ui.queue \o made \o flushed ELSE made} :
       \E u1 \in {Applied(ui, ups)} :
       \E c1 \in {EditorCtx(u1)} :
       \E b1 \in {HeldBytes(b, ups, u1)} :
           LET waits(up) == \E i \in DOMAIN ui.queue : ui.queue[i].field = up.field
               kept == SelectSeq(made, waits)
               left == IF ui.batches THEN <<>>
                       ELSE ui.queue
                            \o [i \in DOMAIN kept |-> [kept[i] EXCEPT !.kept = TRUE]]
                            \o flushed
           IN  /\ ui' = [u1 EXCEPT
                             !.queue = left \o EffectUpdates(EffectsOf(ui, ups, u1), u1, b1, c1),
                             !.effects = {},
                             !.pending = reads]
               /\ ctx' = c1
               /\ bytes' = b1

\* an event handler that starts no read
Handler(op, args, err, b, made) == Event(op, args, err, b, made, ui.pending)

HasContext == ~IsNone(ui.parsed) /\ ~IsNone(ctx)

InitEditor ==
    /\ bytes = parseSaveFile(0, 0)
    /\ \E batches \in BOOLEAN : ui = [EditorInitial EXCEPT !.batches = batches]
    /\ ctx = EditorCtx(ui)
    /\ last = Call("mount", <<>>, Ok(None))
    /\ prev = bytes
    /\ nops = 0

\* the passive effects of the last render run on their own; what they set
\* waits for a render
FlushEffects ==
    /\ ui.effects # {}
    /\ last' = [op |-> "effects", args |-> [effects |-> ui.effects], err |-> "", val |-> ui]
    /\ prev' = bytes
    /\ ui' = [ui EXCEPT !.queue = @ \o EffectUpdates(ui.effects, ui, bytes, ctx),
                        !.effects = {}]
    /\ UNCHANGED <<bytes, ctx, nops>>

\* the render of the queued updates: the effects that wait run first, then
\* every update is applied; a parsed that was set holds the bytes as they
\* were parsed; the effects whose dependencies changed wait
Render ==
    /\ ui.queue # <<>>
    /\ last' = [op |-> "render", args |-> <<>>, err |-> "", val |-> ui]
    /\ prev' = bytes
    /\ \E ups \in {ui.queue \o EffectUpdates(ui.effects, ui, bytes, ctx)} :
       \E u1 \in {Applied(ui, ups)} :
           /\ bytes' = HeldBytes(bytes, ups, u1)
           /\ ui' = [u1 EXCEPT !.queue = <<>>, !.effects = EffectsOf(ui, ups, u1)]
    /\ ctx' = EditorCtx(ui')
    /\ UNCHANGED nops

\* handleFile up to its await: the name is set, the read is under way
HandleFile ==
    \E f \in EditorFiles :
        Event("handleFile", [file |-> f.name], "", bytes,
              <<SetTo("fileName", f.name)>>, Append(ui.pending, f.name))

\* handleFile after its await, the promise fulfilled: setParsed
LoadResolved ==
    \E i \in DOMAIN ui.pending :
        /\ UiStep("loadResolved", [file |-> ui.pending[i]], "")
        /\ ui' = [ui EXCEPT !.pending = RemoveAt(@, i),
                            !.queue = Append(@, SetTo("parsed", Some(ui.pending[i])))]
        /\ UNCHANGED <<bytes, ctx>>

\* handleFile after its await, the promise rejected: the catch block
LoadRejected ==
    \E i \in DOMAIN ui.pending :
        /\ UiStep("loadRejected", [file |-> ui.pending[i]], "ReadFailed")
        /\ ui' = [ui EXCEPT !.pending = RemoveAt(@, i),
                            !.queue = @ \o <<SetTo("parsed", None),
                                             SetTo("entry", None),
                                             SetTo("editableStats", None),
                                             SetTo("cardStates", None),
                                             SetTo("playerName", <<>>),
                                             SetTo("styling", None),
                                             SetTo("decks", None)>>]
        /\ UNCHANGED <<bytes, ctx>>

SelectPlatform ==
    \E p \in PLATFORMS :
        /\ p # ui.platform
        /\ Handler("selectPlatform", [platform |-> p], "", bytes, OnPlatformChange(p))

\* the slot selector is rendered for wii only; its onChange:
\* setSaveSlot(Number(value))
SelectSlot ==
    \E slot \in 0..3 :
        /\ ui.platform = "wii"
        /\ slot # ui.saveSlot
        /\ Handler("selectSlot", [saveSlot |-> slot], "", bytes,
                   <<SetTo("saveSlot", slot)>>)

HandleBakuganChange ==
    \E i \in DOMAIN bakuganList :
        /\ HasContext
        /\ bakuganList[i] # ui.selectedBakuganId
        /\ Handler("handleBakuganChange", [id |-> bakuganList[i]], "", bytes,
                   <<SetTo("selectedBakuganId", bakuganList[i])>>)

HandleAttributeChange ==
    \E i \in DOMAIN attributeList :
        /\ HasContext
        /\ attributeList[i] # ui.selectedAttributeId
        /\ Handler("handleAttributeChange", [id |-> attributeList[i]], "", bytes,
                   <<SetTo("selectedAttributeId", attributeList[i])>>)

HandleStatChange ==
    \E in \in StatChangeInputs :
        /\ HasContext
        /\ ~IsNone(ui.entry)
        /\ ~IsNone(ui.editableStats)
        /\ Handler("handleStatChange", [field |-> in[1], value |-> in[2]], "", bytes,
                   <<Update("editableStats", "spread", in)>>)

\* writeBakuganEntry of the clamped form values, then refreshEntry
HandleSaveStats ==
    /\ HasContext
    /\ ~IsNone(ui.entry)
    /\ ~IsNone(ui.editableStats)
    /\ \E w \in {writeBakuganEntry(bytes, Get(ctx), ui.selectedBakuganId,
                                     ui.selectedAttributeId,
                                     RawToWrite(Get(ui.entry), Get(ui.editableStats)))} :
           Handler("handleSaveStats", <<>>, w.err, w.bytes,
                   IF w.err # "" THEN <<>>
                   ELSE RefreshEntry(ui, w.bytes, ctx, ui.selectedBakuganId,
                                     ui.selectedAttributeId))

HandleCardToggle ==
    \E i \in DOMAIN cardList, unlocked \in BOOLEAN :
        /\ HasContext
        /\ \E w \in {writeCardFlag(bytes, Get(ctx), cardList[i], unlocked)} :
               Handler("handleCardToggle", [cardId |-> cardList[i], unlocked |-> unlocked],
                       w.err, w.bytes,
                       IF w.err # "" THEN <<>>
                       ELSE <<Update("cardStates", "toggle", <<i, unlocked>>)>>)

\* handleUnlockAllCards (unlocked = TRUE) and handleLockAllCards (FALSE)
HandleAllCards(op, unlocked) ==
    /\ HasContext
    /\ ~IsNone(ui.cardStates)
    /\ \E w \in {WriteAllCards(bytes, Get(ctx), 1, unlocked)} :
           Handler(op, [unlocked |-> unlocked], w.err, w.bytes,
                   IF w.err # "" THEN <<>>
                   ELSE <<Update("cardStates", "all", unlocked)>>)

HandleUnlockAllCards == HandleAllCards("handleUnlockAllCards", TRUE)

HandleLockAllCards == HandleAllCards("handleLockAllCards", FALSE)

\* the name input's onChange: setPlayerName(e.target.value)
PlayerNameInput ==
    \E name \in PlayerNameInputs :
        /\ HasContext
        /\ Handler("playerNameInput", [name |-> name], "", bytes,
                   <<SetTo("playerName", name)>>)

HandleSavePlayerName ==
    /\ HasContext
    /\ \E w \in {writePlayerName(bytes, Get(ctx), ui.playerName)} :
       \E r \in {readPlayerName(w.bytes, Get(ctx))} :
           Handler("handleSavePlayerName", <<>>, IF w.err # "" THEN w.err ELSE r.err,
                   w.bytes,
                   IF w.err # "" \/ r.err # "" THEN <<>>
                   ELSE <<SetTo("playerName", r.val)>>)

HandleStylingChange ==
    \E in \in StylingChangeInputs :
        /\ HasContext
        /\ ~IsNone(ui.styling)
        /\ Handler("handleStylingChange", [fieldKey |-> in[1], value |-> in[2]], "", bytes,
                   <<Update("styling", "spread", <<in[1], Some(in[2])>>)>>)

HandleSaveStyling ==
    /\ HasContext
    /\ ~IsNone(ui.styling)
    /\ \E w \in {writeStyling(bytes, Get(ctx), STYLING_FIELDS, Get(ui.styling))} :
       \E r \in {readStyling(w.bytes, Get(ctx), STYLING_FIELDS)} :
           Handler("handleSaveStyling", <<>>, IF w.err # "" THEN w.err ELSE r.err,
                   w.bytes,
                   IF w.err # "" \/ r.err # "" THEN <<>>
                   ELSE <<SetTo("styling", Some(r.val))>>)

\* (Empty) clears both sub-fields; otherwise the one sub-field is set
HandleBakuganSlotChange ==
    \E in \in BakuganSlotInputs :
        /\ HasContext
        /\ ~IsNone(ui.decks)
        /\ Handler("handleBakuganSlotChange",
                   [deckIndex |-> in[1], slotIndex |-> in[2], field |-> in[3], value |-> in[4]],
                   "", bytes,
                   <<Update("decks", "deckSlot",
                        <<in[1], "bakuganSlots", in[2],
                          IF in[3] = "bakuganId" /\ in[4] = -1
                          THEN [bakuganId |-> None, attributeId |-> None]
                          ELSE IF in[3] = "bakuganId" THEN [bakuganId |-> Some(in[4])]
                          ELSE [attributeId |-> Some(in[4])]>>)>>)

HandleGateCardChange ==
    \E in \in CardSlotInputs,
       val \in {-1} \cup {gateCardOptions[i] : i \in DOMAIN gateCardOptions} :
        /\ HasContext
        /\ ~IsNone(ui.decks)
        /\ Handler("handleGateCardChange",
                   [deckIndex |-> in[1], slotIndex |-> in[2], value |-> val], "", bytes,
                   <<Update("decks", "deckSlot",
                        <<in[1], "gateCards", in[2],
                          [cardId |-> IF val = -1 THEN None ELSE Some(val)]>>)>>)

HandleAbilityCardChange ==
    \E in \in CardSlotInputs,
       val \in {-1} \cup {cardList[i] : i \in DOMAIN cardList} :
        /\ HasContext
        /\ ~IsNone(ui.decks)
        /\ Handler("handleAbilityCardChange",
                   [deckIndex |-> in[1], slotIndex |-> in[2], value |-> val], "", bytes,
                   <<Update("decks", "deckSlot",
                        <<in[1], "abilityCards", in[2],
                          [cardId |-> IF val = -1 THEN None ELSE Some(val)]>>)>>)

\* the deck name input is rendered while there are deck names
HandleDeckNameChange ==
    \E in \in DeckNameChangeInputs :
        /\ HasContext
        /\ ~IsNone(ui.decks)
        /\ ~IsNone(ui.deckNames)
        /\ Handler("handleDeckNameChange", [deckIndex |-> in[1], value |-> in[2]], "", bytes,
                   <<Update("deckNames", "deckName",
                            <<in[1], Slice(in[2], DECK_NAME_MAX_CHARS)>>)>>)

\* every deck and deck name written, then read back into the form
HandleSaveDecks ==
    /\ HasContext
    /\ ~IsNone(ui.decks)
    /\ \E w \in {SaveDecksWrites(bytes, Get(ctx), Get(ui.decks), ui.deckNames)} :
       \E d1 \in {readDeck(w.bytes, Get(ctx), 0)}, d2 \in {readDeck(w.bytes, Get(ctx), 1)},
          n1 \in {readDeckName(w.bytes, Get(ctx), 0)},
          n2 \in {readDeckName(w.bytes, Get(ctx), 1)} :
       LET deckErr == IF d1.err # "" THEN d1.err ELSE d2.err
           nameErr == IF IsNone(ui.deckNames) THEN ""
                      ELSE IF n1.err # "" THEN n1.err ELSE n2.err
       IN  Handler("handleSaveDecks", <<>>,
                   IF w.err # "" THEN w.err ELSE IF deckErr # "" THEN deckErr ELSE nameErr,
                   w.bytes,
                   IF w.err # "" \/ deckErr # "" THEN <<>>
                   ELSE IF IsNone(ui.deckNames) \/ nameErr # ""
                        THEN <<SetTo("decks", Some(<<d1.val, d2.val>>))>>
                        ELSE <<SetTo("decks", Some(<<d1.val, d2.val>>)),
                               SetTo("deckNames", Some(<<n1.val, n2.val>>))>>)

HandleStatsFieldChange ==
    \E in \in StatsFieldInputs :
        /\ HasContext
        /\ ~IsNone(ui.stats)
        /\ Handler("handleStatsFieldChange", [key |-> in[1], value |-> in[2]], "", bytes,
                   <<Update("stats", "spread", in)>>)

HandleOpponentWinChange ==
    \E in \in OpponentWinInputs :
        /\ HasContext
        /\ ~IsNone(ui.stats)
        /\ Handler("handleOpponentWinChange", [index |-> in[1], value |-> in[2]], "", bytes,
                   <<Update("stats", "opponentWin", in)>>)

HandleSaveStatsSection ==
    /\ HasContext
    /\ ~IsNone(ui.stats)
    /\ \E w \in {writeStats(bytes, Get(ctx), StatsArgument(Get(ui.stats)))} :
       \E r \in {readStats(w.bytes, Get(ctx))} :
           Handler("handleSaveStatsSection", <<>>, IF w.err # "" THEN w.err ELSE r.err,
                   w.bytes,
                   IF w.err # "" \/ r.err # "" THEN <<>>
                   ELSE <<SetTo("stats", Some(r.val))>>)

NextEditor ==
    \/ FlushEffects
    \/ Render
    \/ HandleFile
    \/ LoadResolved
    \/ LoadRejected
    \/ SelectPlatform
    \/ SelectSlot
    \/ HandleBakuganChange
    \/ HandleAttributeChange
    \/ HandleStatChange
    \/ HandleSaveStats
    \/ HandleCardToggle
    \/ HandleUnlockAllCards
    \/ HandleLockAllCards
    \/ PlayerNameInput
    \/ HandleSavePlayerName
    \/ HandleStylingChange
    \/ HandleSaveStyling
    \/ HandleBakuganSlotChange
    \/ HandleGateCardChange
    \/ HandleAbilityCardChange
    \/ HandleDeckNameChange
    \/ HandleSaveDecks
    \/ HandleStatsFieldChange
    \/ HandleOpponentWinChange
    \/ HandleSaveStatsSection

SpecEditor == InitEditor /\ [][NextEditor]_vars

-----------------------------------------------------------------------------
(* What the last call was *)

Did(op) == last.op = op

Succeeded(op) == last.op = op /\ last.err = ""

\* the buffer is byte for byte what it was before the call
BufferUnchanged == bytes = prev

\* the offset the last entry call resolved
LastEntryOffset == getBakuganOffset(ctx, last.args.bakuganId, last.args.attributeId)

-----------------------------------------------------------------------------
(* C1: Creature entry round-trip.  After writeBakuganEntry has written an  *)
(* entry whose record lies inside the buffer and whose seven stats are all *)
(* given (power in 0..65535, the others in 0..255), readBakuganEntry with  *)
(* the same context and keys returns those seven values.                   *)

EntryWritten ==
    /\ Succeeded("writeBakuganEntry")
    /\ LastEntryOffset >= 0
    /\ \A k \in RawKeys : ~IsNone(last.args.raw[k])
    /\ Get(last.args.raw.power) \in 0..65535
    /\ \A k \in RawKeys \ {"power"} : Get(last.args.raw[k]) \in 0..255

\* C1: reading the entry just written returns the seven values written
EntryRoundTrip ==
    EntryWritten =>
        LET r == readBakuganEntry(bytes, ctx, last.args.bakuganId, last.args.attributeId)
        IN  /\ r.err = ""
            /\ r.val.raw.power = Get(last.args.raw.power)
            /\ \A k \in RawKeys \ {"power"} : r.val.raw[k] = last.args.raw[k]

\* a two-byte power written on the little-endian platform and read back
EntryRoundTripWitness ==
    /\ EntryWritten
    /\ ctx.wordEndian = "little"
    /\ last.args.raw.power = Some(300)
    /\ readBakuganEntry(bytes, ctx, last.args.bakuganId, last.args.attributeId).val.raw.power = 300

-----------------------------------------------------------------------------
(* C2: Block bounds check before mutation.  When the resolved offset plus  *)
(* the entity length (14, 45, 36) exceeds bytes.length, writeBakuganEntry, *)
(* writeStyling and writeDeck throw an out-of-range error and leave every  *)
(* byte unchanged, and the matching reads throw the same error.            *)

\* the last call is one of the six block calls and its block ends past the buffer
BlockPastEnd ==
    \/ /\ last.op \in {"readBakuganEntry", "writeBakuganEntry"}
       /\ LastEntryOffset + 14 > prev.len
    \/ /\ last.op \in {"readStyling", "writeStyling"}
       /\ ctx.stylingOffset + 45 > prev.len
    \/ /\ last.op \in {"readDeck", "writeDeck"}
       /\ last.args.deckIndex \in {0, 1}
       /\ ctx.deckOffsets[last.args.deckIndex + 1] + 36 > prev.len

\* C2: a block call whose block ends past the buffer throws out-of-range and
\* changes no byte
BlockBoundsChecked ==
    BlockPastEnd => last.err = "OutOfRange" /\ BufferUnchanged

\* a write whose block starts inside the buffer and ends past it was refused
BlockBoundsWitness ==
    /\ BlockPastEnd
    /\ Did("writeBakuganEntry")
    /\ LastEntryOffset < prev.len
    /\ last.err = "OutOfRange"

-----------------------------------------------------------------------------
(* C3: Card-flag range check.  readCardFlag and writeCardFlag fail with an *)
(* out-of-range error, the buffer unchanged, for every cardId whose offset *)
(* cardBaseOffset + cardId is negative or at least bytes.length.           *)

LastCardOffset == ctx.cardBaseOffset + last.args.cardId

\* C3: a card-flag call at a negative offset or one past the end throws
\* out-of-range and changes no byte
CardFlagRangeChecked ==
    (/\ last.op \in {"readCardFlag", "writeCardFlag"}
     /\ (LastCardOffset < 0 \/ LastCardOffset >= prev.len))
        => last.err = "OutOfRange" /\ BufferUnchanged

-----------------------------------------------------------------------------
(* C4: Player-name boundary.  When playerNameOffset + 16 exceeds           *)
(* bytes.length, writePlayerName and readPlayerName raise an out-of-range  *)
(* error and the buffer is unchanged.                                      *)

PlayerNameBoundary ==
    (/\ last.op \in {"readPlayerName", "writePlayerName"}
     /\ ctx.playerNameOffset + 16 > prev.len)
        => last.err = "OutOfRange" /\ BufferUnchanged

-----------------------------------------------------------------------------
(* C5: Stats write is all-or-nothing on bounds.  When the buffer is too    *)
(* short for every configured stats field, writeStats raises an            *)
(* out-of-range error and has written none of the fields.                  *)

\* the end (exclusive) of the stats field at each configured offset
StatsFieldEnd(o, k) ==
    o[k] + (IF k \in {"rankingPoints", "bakuganPoints"} THEN 3
            ELSE IF k = "opponentWins" THEN 16
            ELSE IF k = "attributeUsageBase" THEN 12
            ELSE 1)

StatsPastEnd ==
    /\ Did("writeStats")
    /\ ~IsNone(ctx.statsOffsets)
    /\ \E k \in DOMAIN Get(ctx.statsOffsets) :
           StatsFieldEnd(Get(ctx.statsOffsets), k) > prev.len

\* C5: writeStats on a buffer too short for a stats field throws out-of-range
\* and changes no byte
StatsWriteAllOrNothing ==
    StatsPastEnd => last.err = "OutOfRange" /\ BufferUnchanged

-----------------------------------------------------------------------------
(* C6: Slot clamping.  For every requested slot, getSaveContext returns    *)
(* slot 0 on ps3, and on wii, ps2 and x360 the requested slot clamped into *)
(* 0..3; baseOffset is the profile's baseOffset + saveSize * that slot     *)
(* (no shift on ps3), so getSaveContext("wii", 9).baseOffset is            *)
(* 275 + 13952 * 3.                                                        *)

ClampedInto03(s) == IF s < 0 THEN 0 ELSE IF s > 3 THEN 3 ELSE s

ResolvedKnownPlatform == Did("getSaveContext") /\ last.args.platform \in PLATFORMS

\* C6: the resolved slot is 0 on ps3 and the request clamped into 0..3
\* elsewhere, and baseOffset is shifted by saveSize * that slot
SlotClamping ==
    ResolvedKnownPlatform =>
        LET p   == last.args.platform
            cfg == FORMAT_CONFIGS[p]
        IN  /\ last.err = ""
            /\ p = "ps3" =>
                   last.val.slot = 0 /\ last.val.baseOffset = cfg.baseOffset
            /\ p # "ps3" =>
                   /\ last.val.slot = ClampedInto03(last.args.saveSlot)
                   /\ last.val.baseOffset =
                          cfg.baseOffset + Get(cfg.saveSize) * ClampedInto03(last.args.saveSlot)
            /\ (p = "wii" /\ last.args.saveSlot = 9) => last.val.baseOffset = 275 + 13952 * 3

\* slot 9 was asked for on wii and slot 3 resolved
SlotClampingWitness ==
    /\ ResolvedKnownPlatform
    /\ last.args.platform = "wii"
    /\ last.args.saveSlot = 9
    /\ last.val.slot = 3
    /\ last.val.baseOffset = 42131

-----------------------------------------------------------------------------
(* C7: Uniform slot shift.  Every offset of the context getSaveContext     *)
(* returns is the profile's offset plus shift = saveSize * slot (0 when    *)
(* saveSize is null): baseOffset, cardBaseOffset, playerNameOffset,        *)
(* stylingOffset, both deckOffsets, every statsOffsets entry, and both     *)
(* deckNameOffsets (shifted deckOffset - deckNameBackOffset).              *)

ShiftOf(cfg, slot) == IF IsNone(cfg.saveSize) THEN 0 ELSE Get(cfg.saveSize) * slot

\* C7: every offset of the resolved context is the profile's offset plus the
\* one shift saveSize * slot
UniformSlotShift ==
    (ResolvedKnownPlatform /\ last.err = "") =>
        LET cfg   == FORMAT_CONFIGS[last.args.platform]
            c     == last.val
            shift == ShiftOf(cfg, c.slot)
        IN  /\ c.baseOffset = cfg.baseOffset + shift
            /\ c.cardBaseOffset = cfg.cardBaseOffset + shift
            /\ c.playerNameOffset = cfg.playerNameOffset + shift
            /\ c.stylingOffset = cfg.stylingOffset + shift
            /\ \A i \in {1, 2} : c.deckOffsets[i] = cfg.deckOffsets[i] + shift
            /\ IsNone(cfg.statsOffsets) = IsNone(c.statsOffsets)
            /\ ~IsNone(cfg.statsOffsets) =>
                   \A k \in StatsKeys :
                       Get(c.statsOffsets)[k] = Get(cfg.statsOffsets)[k] + shift
            /\ \A i \in {1, 2} :
                   Get(c.deckNameOffsets)[i] =
                       cfg.deckOffsets[i] + shift - Get(cfg.deckNameBackOffset)

\* a context with a shift that is not 0: ps2, slot 2
UniformSlotShiftWitness ==
    /\ ResolvedKnownPlatform
    /\ last.args.platform = "ps2"
    /\ last.val.slot = 2
    /\ last.val.stylingOffset = 14846 + 27840
    /\ Get(last.val.deckNameOffsets)[2] = 12692 + 27840 - 40

-----------------------------------------------------------------------------
(* C8: Unknown platform.  getSaveContext called with a platform identifier *)
(* other than ps3, wii, ps2, x360 throws an unknown-platform error,        *)
(* whatever the slot.                                                      *)

UnknownPlatformThrows ==
    (Did("getSaveContext") /\ last.args.platform \notin PLATFORMS)
        => last.err = "UnknownPlatform"

-----------------------------------------------------------------------------
(* C9: Endianness of the byte primitives.  readU16 returns b0*256 + b1     *)
(* under big-endian and b1*256 + b0 under little-endian; readU24 returns   *)
(* b0*65536 + b1*256 + b2 under big-endian and b2*65536 + b1*256 + b0      *)
(* under little-endian; writeU16 and writeU24 store the bytes in the same  *)
(* order, so a read after a write returns the value masked to 16 or 24     *)
(* bits.                                                                   *)

\* the byte at the last call's offset + i
B(i) == ByteAt(bytes, last.args.offset + i)

BigEndian == ctx.wordEndian = "big"

\* C9: readU16, readU24, writeU16 and writeU24 order the bytes as the
\* context's endianness says, and a read after a write returns the masked value
EndianPrimitives ==
    /\ Did("readU16") =>
           last.val = IF BigEndian THEN B(0) * 256 + B(1) ELSE B(1) * 256 + B(0)
    /\ Did("readU24") =>
           last.val = IF BigEndian THEN B(0) * 65536 + B(1) * 256 + B(2)
                      ELSE B(2) * 65536 + B(1) * 256 + B(0)
    /\ Did("writeU16") =>
           LET v == last.args.value % 65536
           IN  /\ IF BigEndian THEN B(0) = v \div 256 /\ B(1) = v % 256
                  ELSE B(1) = v \div 256 /\ B(0) = v % 256
               /\ readU16(bytes, last.args.offset, ctx) = v
    /\ Did("writeU24") =>
           LET v == last.args.value % 16777216
           IN  /\ IF BigEndian
                  THEN B(0) = v \div 65536 /\ B(1) = (v \div 256) % 256 /\ B(2) = v % 256
                  ELSE B(2) = v \div 65536 /\ B(1) = (v \div 256) % 256 /\ B(0) = v % 256
               /\ readU24(bytes, last.args.offset, ctx) = v

\* the bytes 01 02 03 read as 0x030201 on the little-endian platform
EndianPrimitivesWitness ==
    /\ Did("readU24")
    /\ ~BigEndian
    /\ B(0) = 1 /\ B(1) = 2 /\ B(2) = 3
    /\ last.val = 197121

-----------------------------------------------------------------------------
(* C10: Deck slot encoding.  writeDeck stores a present creature slot as   *)
(* the 16-bit value 6 * bakuganId + attributeId and a present card as      *)
(* cardId - 10232, in the context's byte order, at deck offsets +0/+2/+4,  *)
(* +12/+14/+16 and +24/+26/+28; readDeck decodes a value v that is not the *)
(* sentinel as bakuganId = v div 6, attributeId = v mod 6 and              *)
(* cardId = v + 10232.                                                     *)

\* the two bytes at offset o as a 16-bit value in the context's byte order
StoredWord(o) ==
    IF ctx.wordEndian = "big"
    THEN ByteAt(bytes, o) * 256 + ByteAt(bytes, o + 1)
    ELSE ByteAt(bytes, o + 1) * 256 + ByteAt(bytes, o)

LastDeckBase == ctx.deckOffsets[last.args.deckIndex + 1]

BakuganSlotPresent(slots, k) ==
    /\ k + 1 \in DOMAIN slots
    /\ ~IsNone(slots[k + 1].bakuganId)
    /\ ~IsNone(slots[k + 1].attributeId)

CardSlotPresent(slots, k) ==
    k + 1 \in DOMAIN slots /\ ~IsNone(slots[k + 1].cardId)

\* C10: writeDeck stores 6 * bakuganId + attributeId and cardId - 10232 at the
\* slot offsets, and readDeck decodes them back
DeckSlotEncoding ==
    /\ Succeeded("writeDeck") =>
           LET d == last.args.deck
           IN  \A k \in 0..2 :
                   /\ BakuganSlotPresent(d.bakuganSlots, k) =>
                          StoredWord(LastDeckBase + 2 * k) =
                              (6 * Get(d.bakuganSlots[k + 1].bakuganId)
                                 + Get(d.bakuganSlots[k + 1].attributeId)) % 65536
                   /\ CardSlotPresent(d.gateCards, k) =>
                          StoredWord(LastDeckBase + 12 + 2 * k) =
                              (Get(d.gateCards[k + 1].cardId) - 10232) % 65536
                   /\ CardSlotPresent(d.abilityCards, k) =>
                          StoredWord(LastDeckBase + 24 + 2 * k) =
                              (Get(d.abilityCards[k + 1].cardId) - 10232) % 65536
    /\ Succeeded("readDeck") =>
           \A k \in 0..2 :
               /\ StoredWord(LastDeckBase + 2 * k) # 65535 =>
                      /\ last.val.bakuganSlots[k + 1].bakuganId =
                             Some(StoredWord(LastDeckBase + 2 * k) \div 6)
                      /\ last.val.bakuganSlots[k + 1].attributeId =
                             Some(StoredWord(LastDeckBase + 2 * k) % 6)
               /\ StoredWord(LastDeckBase + 12 + 2 * k) # 65535 =>
                      last.val.gateCards[k + 1].cardId =
                          Some(StoredWord(LastDeckBase + 12 + 2 * k) + 10232)
               /\ StoredWord(LastDeckBase + 24 + 2 * k) # 65535 =>
                      last.val.abilityCards[k + 1].cardId =
                          Some(StoredWord(LastDeckBase + 24 + 2 * k) + 10232)

\* creature 5 with attribute 2 stored as 32 and gate card 10300 as 68, low
\* byte first
DeckSlotEncodingWitness ==
    /\ Succeeded("writeDeck")
    /\ ctx.wordEndian = "little"
    /\ BakuganSlotPresent(last.args.deck.bakuganSlots, 0)
    /\ last.args.deck.bakuganSlots[1] = BSlot(Some(5), Some(2))
    /\ last.args.deck.gateCards[1] = CSlot(Some(10300))
    /\ ByteAt(bytes, LastDeckBase) = 32 /\ ByteAt(bytes, LastDeckBase + 1) = 0
    /\ ByteAt(bytes, LastDeckBase + 12) = 68 /\ ByteAt(bytes, LastDeckBase + 13) = 0

-----------------------------------------------------------------------------
(* Helpers of the deck claims *)

\* the deck readDeck returns now for the deck index of the last call
DeckReadBack == readDeck(bytes, ctx, last.args.deckIndex).val

\* the buffer has its length and, outside lo .. hi - 1, every byte it had
\* before the last call
UnchangedOutside(lo, hi) ==
    /\ bytes.len = prev.len
    /\ bytes.fill = prev.fill
    /\ \A x \in (DOMAIN bytes.mem) \cup (DOMAIN prev.mem) :
           (x < lo \/ x >= hi) => ByteAt(bytes, x) = ByteAt(prev, x)

-----------------------------------------------------------------------------
(* C11: Sentinel round-trip.  On big- and little-endian platforms alike,   *)
(* writeDeck of a creature slot that is missing or has a null bakuganId or *)
(* a null attributeId, or of a card slot that is missing or has a null     *)
(* cardId, stores the two bytes 0xFF 0xFF in that slot, and readDeck then  *)
(* returns null for bakuganId and attributeId (or for cardId) there.       *)

SentinelAt(o) == ByteAt(bytes, o) = 255 /\ ByteAt(bytes, o + 1) = 255

\* C11: an absent slot is stored as FF FF and read back as null
SentinelRoundTrip ==
    Succeeded("writeDeck") =>
        LET d == last.args.deck
        IN  \A k \in 0..2 :
                /\ ~BakuganSlotPresent(d.bakuganSlots, k) =>
                       /\ SentinelAt(LastDeckBase + 2 * k)
                       /\ DeckReadBack.bakuganSlots[k + 1] = BSlot(None, None)
                /\ ~CardSlotPresent(d.gateCards, k) =>
                       /\ SentinelAt(LastDeckBase + 12 + 2 * k)
                       /\ DeckReadBack.gateCards[k + 1] = CSlot(None)
                /\ ~CardSlotPresent(d.abilityCards, k) =>
                       /\ SentinelAt(LastDeckBase + 24 + 2 * k)
                       /\ DeckReadBack.abilityCards[k + 1] = CSlot(None)

\* a slot with an id and no attribute, and a missing slot, written over
\* zero bytes on a big-endian platform
SentinelRoundTripWitness ==
    /\ Succeeded("writeDeck")
    /\ ctx.wordEndian = "big"
    /\ Len(last.args.deck.bakuganSlots) = 2
    /\ last.args.deck.bakuganSlots[2] = BSlot(Some(1), None)
    /\ ByteAt(prev, LastDeckBase + 2) = 0 /\ ByteAt(prev, LastDeckBase + 4) = 0
    /\ SentinelAt(LastDeckBase + 2) /\ SentinelAt(LastDeckBase + 4)
    /\ DeckReadBack.bakuganSlots[2] = BSlot(None, None)
    /\ DeckReadBack.bakuganSlots[3] = BSlot(None, None)

-----------------------------------------------------------------------------
(* C12: Deck round-trip.  For every platform, slot and deckIndex in {0, 1} *)
(* whose block fits the buffer, and every deck whose creature slots are    *)
(* absent or have attributeId in 0..5 with 6 * bakuganId + attributeId at  *)
(* most 65534 and whose card slots are absent or have cardId in            *)
(* 10232..75766, readDeck after writeDeck returns the deck written: the    *)
(* same ids in the same slots, absent slots absent.  Ids are not negative. *)

CreatureSlotInRange(slots, k) ==
    \/ k + 1 \notin DOMAIN slots
    \/ slots[k + 1] = BSlot(None, None)
    \/ /\ BakuganSlotPresent(slots, k)
       /\ Get(slots[k + 1].bakuganId) >= 0
       /\ Get(slots[k + 1].attributeId) \in 0..5
       /\ 6 * Get(slots[k + 1].bakuganId) + Get(slots[k + 1].attributeId) <= 65534

CardSlotInRange(slots, k) ==
    \/ ~CardSlotPresent(slots, k)
    \/ Get(slots[k + 1].cardId) \in 10232..75766

DeckInRange(d) ==
    \A k \in 0..2 :
        /\ CreatureSlotInRange(d.bakuganSlots, k)
        /\ CardSlotInRange(d.gateCards, k)
        /\ CardSlotInRange(d.abilityCards, k)

\* the slot written at position k, a missing slot being an absent one
WrittenSlot(slots, k, absent) == IF k + 1 \in DOMAIN slots THEN slots[k + 1] ELSE absent

\* C12: the deck read back is the deck written
DeckRoundTrip ==
    (Succeeded("writeDeck") /\ DeckInRange(last.args.deck)) =>
        LET d == last.args.deck
            r == readDeck(bytes, ctx, last.args.deckIndex)
        IN  /\ r.err = ""
            /\ \A k \in 0..2 :
                   /\ r.val.bakuganSlots[k + 1] = WrittenSlot(d.bakuganSlots, k, BSlot(None, None))
                   /\ r.val.gateCards[k + 1] = WrittenSlot(d.gateCards, k, CSlot(None))
                   /\ r.val.abilityCards[k + 1] = WrittenSlot(d.abilityCards, k, CSlot(None))

\* a deck with the largest card id and an absent slot between two creatures,
\* written to the second deck of a little-endian save and read back
DeckRoundTripWitness ==
    /\ Succeeded("writeDeck")
    /\ DeckInRange(last.args.deck)
    /\ ctx.wordEndian = "little"
    /\ last.args.deckIndex = 1
    /\ Len(last.args.deck.abilityCards) = 2
    /\ last.args.deck.abilityCards[1] = CSlot(Some(75766))
    /\ DeckReadBack.abilityCards[1] = CSlot(Some(75766))
    /\ DeckReadBack.bakuganSlots = <<BSlot(Some(5), Some(2)), BSlot(None, None),
                                     BSlot(Some(1), Some(5))>>

-----------------------------------------------------------------------------
(* C13: The sentinel does not leak.  A slot written with a bakuganId and   *)
(* an attributeId that are not null, or with a cardId that is not null     *)
(* (any integer, ids below 10232 included), is never stored as 0xFFFF and  *)
(* never read back by readDeck as absent.                                  *)

SentinelNeverLeaks ==
    Succeeded("writeDeck") =>
        LET d == last.args.deck
        IN  \A k \in 0..2 :
                /\ BakuganSlotPresent(d.bakuganSlots, k) =>
                       /\ StoredWord(LastDeckBase + 2 * k) # 65535
                       /\ ~IsNone(DeckReadBack.bakuganSlots[k + 1].bakuganId)
                /\ CardSlotPresent(d.gateCards, k) =>
                       /\ StoredWord(LastDeckBase + 12 + 2 * k) # 65535
                       /\ ~IsNone(DeckReadBack.gateCards[k + 1].cardId)
                /\ CardSlotPresent(d.abilityCards, k) =>
                       /\ StoredWord(LastDeckBase + 24 + 2 * k) # 65535
                       /\ ~IsNone(DeckReadBack.abilityCards[k + 1].cardId)

-----------------------------------------------------------------------------
(* C14: Deck padding and frame.  Every successful writeDeck sets the 18     *)
(* bytes at deck offsets +6..+11, +18..+23 and +30..+35 to 0xFF, whatever   *)
(* they held and whatever deck is passed, and changes no byte outside the   *)
(* 36-byte block at ctx.deckOffsets[deckIndex].                             *)

PaddingOffsets == (6..11) \cup (18..23) \cup (30..35)

\* C14: the padding is FF and nothing outside the deck block changed
DeckPaddingAndFrame ==
    Succeeded("writeDeck") =>
        /\ \A i \in PaddingOffsets : ByteAt(bytes, LastDeckBase + i) = 255
        /\ UnchangedOutside(LastDeckBase, LastDeckBase + 36)

\* padding that held zeros is FF after the empty deck was written
DeckPaddingWitness ==
    /\ Succeeded("writeDeck")
    /\ last.args.deck.bakuganSlots = <<>>
    /\ \A i \in PaddingOffsets : ByteAt(prev, LastDeckBase + i) = 0
    /\ \A i \in PaddingOffsets : ByteAt(bytes, LastDeckBase + i) = 255
    /\ ByteAt(bytes, LastDeckBase + 36) = 0

-----------------------------------------------------------------------------
(* Helpers of the player-name claims *)

\* the 16-byte name region lies inside the buffer
PlayerNameInside == ctx.playerNameOffset + 16 <= prev.len

\* what the claims say is kept of a name: its first 8 characters, each one
\* outside 0x20..0x7E replaced by '?'
KeptName(name) ==
    [i \in 1..(IF Len(name) < 8 THEN Len(name) ELSE 8) |->
        IF name[i] \in 32..126 THEN name[i] ELSE 63]

-----------------------------------------------------------------------------
(* C15: Player-name write encoding.  writePlayerName writes exactly the 16 *)
(* bytes at ctx.playerNameOffset: for i in 0..7 the byte at +2i is the     *)
(* i-th character's code when i is below the name length and the code is   *)
(* in 0x20..0x7E, 0x3F when the code is outside that range, and 0 when i   *)
(* is at or past the name length; the byte at +2i+1 is 0; characters after *)
(* the 8th are dropped and nothing is written past +15.  The byte values   *)
(* are stated for a region inside the buffer, the frame for every buffer.  *)

PlayerNameWriteEncoding ==
    Did("writePlayerName") =>
        LET base == ctx.playerNameOffset
            name == last.args.name
        IN  /\ last.err = ""
            /\ UnchangedOutside(base, base + 16)
            /\ PlayerNameInside =>
                   \A i \in 0..7 :
                       /\ ByteAt(bytes, base + 2 * i) =
                              (IF i < Len(name)
                               THEN (IF name[i + 1] \in 32..126 THEN name[i + 1] ELSE 63)
                               ELSE 0)
                       /\ ByteAt(bytes, base + 2 * i + 1) = 0

\* an 11-character name with the codes 0x01 and 0x7F in it, written over FF
\* bytes: two '?', the 8th character at +14, the byte at +16 still FF
PlayerNameWriteWitness ==
    /\ Did("writePlayerName")
    /\ PlayerNameInside
    /\ Len(last.args.name) = 11
    /\ last.args.name[2] = 1 /\ last.args.name[3] = 127
    /\ ByteAt(bytes, ctx.playerNameOffset) = 65
    /\ ByteAt(bytes, ctx.playerNameOffset + 2) = 63
    /\ ByteAt(bytes, ctx.playerNameOffset + 4) = 63
    /\ ByteAt(bytes, ctx.playerNameOffset + 14) = 69
    /\ ByteAt(prev, ctx.playerNameOffset + 15) = 255
    /\ ByteAt(bytes, ctx.playerNameOffset + 15) = 0
    /\ ByteAt(bytes, ctx.playerNameOffset + 16) = 255

-----------------------------------------------------------------------------
(* C16: Player-name read.  readPlayerName returns the bytes at             *)
(* ctx.playerNameOffset + 0, 2, 4, ... as characters, stopping before the  *)
(* first character byte equal to 0 and after at most 8 characters; so      *)
(* after writePlayerName(name) it returns the first 8 characters of name   *)
(* with every character outside 0x20..0x7E replaced by '?', and a second   *)
(* writePlayerName of that result leaves the buffer unchanged.  Stated for *)
(* a name region inside the buffer.                                        *)

PlayerNameRead ==
    /\ (Did("readPlayerName") /\ PlayerNameInside) =>
           LET base == ctx.playerNameOffset
               r    == last.val
           IN  /\ last.err = ""
               /\ Len(r) <= 8
               /\ \A i \in 1..Len(r) :
                      r[i] = ByteAt(bytes, base + 2 * (i - 1)) /\ r[i] # 0
               /\ Len(r) < 8 => ByteAt(bytes, base + 2 * Len(r)) = 0
    /\ (Did("writePlayerName") /\ PlayerNameInside) =>
           LET r == readPlayerName(bytes, ctx)
           IN  /\ r.err = ""
               /\ r.val = KeptName(last.args.name)
               /\ writePlayerName(bytes, ctx, r.val).bytes = bytes

\* the name "AB" read from a buffer where it was written over FF bytes: the
\* read stops at the zero byte at +4
PlayerNameReadWitness ==
    /\ Did("readPlayerName")
    /\ PlayerNameInside
    /\ last.val = <<65, 66>>
    /\ ByteAt(bytes, ctx.playerNameOffset + 4) = 0
    /\ ByteAt(bytes, ctx.playerNameOffset + 16) = 255

-----------------------------------------------------------------------------
(* Helpers of the stats claims *)

\* the offsets of the context in use
LastStatsOffsets == Get(ctx.statsOffsets)

\* writeStats returned and every stats field lies inside the buffer
StatsWrittenInside ==
    /\ Succeeded("writeStats")
    /\ ~IsNone(ctx.statsOffsets)
    /\ \A k \in DOMAIN LastStatsOffsets : StatsFieldEnd(LastStatsOffsets, k) <= prev.len

\* the number [q, r] clamped into 0..255; a missing or NaN input gives 0
ClampedInto0255(n) ==
    IF IsNone(n) THEN 0
    ELSE IF Get(n).q < 0 THEN 0
    ELSE IF Get(n).q = 0 /\ Get(n).r <= 255 THEN Get(n).r
    ELSE 255

\* arr[i], missing past the end of the array
ElemAt(arr, i) == IF i + 1 \in DOMAIN arr THEN arr[i + 1] ELSE None

-----------------------------------------------------------------------------
(* C17: Stats byte clamping.  For every byte-sized stats field (the eight  *)
(* counters, each opponentWins entry, each attributeUsage entry) and every *)
(* integer input n, n at or beyond 2^31 included, writeStats stores 0 when *)
(* n < 0, n when 0 <= n <= 255 and 255 when n > 255; NaN and missing       *)
(* inputs store 0.                                                         *)

StatsByteClamping ==
    StatsWrittenInside =>
        LET o  == LastStatsOffsets
            st == last.args.stats
        IN  /\ \A i \in 1..Len(ByteCounters) :
                   ByteAt(bytes, o[ByteCounters[i]]) = ClampedInto0255(st[ByteCounters[i]])
            /\ ~IsNone(st.opponentWins) =>
                   \A i \in 0..15 :
                       ByteAt(bytes, o.opponentWins + i) =
                           ClampedInto0255(ElemAt(Get(st.opponentWins), i))
            /\ ~IsNone(st.attributeUsage) =>
                   \A i \in 0..5 :
                       ByteAt(bytes, o.attributeUsageBase + 2 * i) =
                           ClampedInto0255(ElemAt(Get(st.attributeUsage), i))

-----------------------------------------------------------------------------
(* C18: 24-bit counters are masked, not clamped.  writeStats stores        *)
(* rankingPoints and bakuganPoints as value mod 2^24 in three bytes in the *)
(* platform's byte order (a missing value stores 0), readStats on the      *)
(* result returns that masked value for each counter, and writing one      *)
(* counter does not change the other.                                      *)

\* the three bytes at offset o hold v in the context's byte order
HoldsU24(o, v) ==
    IF ctx.wordEndian = "big"
    THEN /\ ByteAt(bytes, o) = v \div 65536
         /\ ByteAt(bytes, o + 1) = (v \div 256) % 256
         /\ ByteAt(bytes, o + 2) = v % 256
    ELSE /\ ByteAt(bytes, o + 2) = v \div 65536
         /\ ByteAt(bytes, o + 1) = (v \div 256) % 256
         /\ ByteAt(bytes, o) = v % 256

\* C18: both counters are stored and read back modulo 2^24
StatsCountersMasked ==
    StatsWrittenInside =>
        LET o  == LastStatsOffsets
            rp == OrElse(last.args.stats.rankingPoints, 0) % 16777216
            bp == OrElse(last.args.stats.bakuganPoints, 0) % 16777216
        IN  /\ HoldsU24(o.rankingPoints, rp)
            /\ HoldsU24(o.bakuganPoints, bp)
            /\ readStats(bytes, ctx).val.rankingPoints = rp
            /\ readStats(bytes, ctx).val.bakuganPoints = bp

\* rankingPoints 16777300 stored as 00 00 54 and read back as 84, with
\* bakuganPoints 66051 beside it as 01 02 03
StatsCountersWitness ==
    /\ StatsWrittenInside
    /\ last.args.stats.rankingPoints = Some(16777300)
    /\ ByteAt(bytes, LastStatsOffsets.rankingPoints) = 0
    /\ ByteAt(bytes, LastStatsOffsets.rankingPoints + 2) = 84
    /\ ByteAt(prev, LastStatsOffsets.rankingPoints) = 255
    /\ readStats(bytes, ctx).val.rankingPoints = 84
    /\ readStats(bytes, ctx).val.bakuganPoints = 66051

-----------------------------------------------------------------------------
(* C19: Stats unavailable.  Under a context whose statsOffsets is null     *)
(* (every slot of wii, ps2 and x360), readStats and writeStats each throw  *)
(* a stats-unavailable error, writeStats before it changes any byte; the   *)
(* codec never falls back to zero offsets.                                 *)

StatsUnavailable ==
    /\ (last.op \in {"readStats", "writeStats"} /\ IsNone(ctx.statsOffsets)) =>
           last.err = "StatsUnavailable" /\ BufferUnchanged
    /\ ctx.platform \in {"wii", "ps2", "x360"} => IsNone(ctx.statsOffsets)

\* writeStats refused on the third save of a wii file, the first bytes of
\* the buffer still what they were
StatsUnavailableWitness ==
    /\ Did("writeStats")
    /\ ctx.platform = "wii"
    /\ ctx.slot = 2
    /\ last.err = "StatsUnavailable"
    /\ ByteAt(bytes, 0) = ByteAt(prev, 0)

-----------------------------------------------------------------------------
(* C20: Deck-name errors.  readDeckName and writeDeckName fail with a      *)
(* dedicated not-configured error when the context has no deckNameOffsets, *)
(* with a different error when deckIndex has no name offset, and with an   *)
(* out-of-range error when the 20-byte region starts below 0 or ends past  *)
(* bytes.length; in each failing case writeDeckName leaves the buffer      *)
(* unchanged.                                                              *)

LastDeckNameCall == last.op \in {"readDeckName", "writeDeckName"}

\* the name offset the last call resolved; asked for only where there is one
LastDeckNameBase == Get(ctx.deckNameOffsets)[last.args.deckIndex + 1]

\* C20: each failing case has its own error and changes no byte
DeckNameErrors ==
    LastDeckNameCall =>
        /\ IsNone(ctx.deckNameOffsets) =>
               last.err = "DeckNameNotConfigured" /\ BufferUnchanged
        /\ (/\ ~IsNone(ctx.deckNameOffsets)
            /\ last.args.deckIndex + 1 \notin DOMAIN Get(ctx.deckNameOffsets)) =>
               last.err = "NoDeckNameOffset" /\ BufferUnchanged
        /\ (/\ ~IsNone(ctx.deckNameOffsets)
            /\ last.args.deckIndex + 1 \in DOMAIN Get(ctx.deckNameOffsets)
            /\ (LastDeckNameBase < 0 \/ LastDeckNameBase + 20 > prev.len)) =>
               last.err = "OutOfRange" /\ BufferUnchanged
        /\ last.err \in {"", "DeckNameNotConfigured", "NoDeckNameOffset", "OutOfRange"}

\* writeDeckName refused under the context without deckNameOffsets, after a
\* name was written under it to no effect
DeckNameErrorsWitness ==
    /\ Did("writeDeckName")
    /\ IsNone(ctx.deckNameOffsets)
    /\ last.args.deckIndex = 0
    /\ last.err = "DeckNameNotConfigured"
    /\ bytes.mem = EmptyMem
    /\ nops = 2

-----------------------------------------------------------------------------
(* Helpers of the styling claims *)

\* the key of this descriptor has a numeric value in the map of the last call
FieldHasValue(field) ==
    field.key \in DOMAIN last.args.styling /\ ~IsNone(last.args.styling[field.key])

\* every sub-offset of the list lies inside the 45-byte block
FieldsInsideBlock(fields) ==
    \A i \in DOMAIN fields : fields[i].byteOffset \in 0..(STYLING_LENGTH - 1)

FieldsDistinct(fields) ==
    \A i, j \in DOMAIN fields : i # j => fields[i].byteOffset # fields[j].byteOffset

-----------------------------------------------------------------------------
(* C21: Styling write leaves unspecified keys untouched.  For every        *)
(* descriptor list whose sub-offsets lie inside the 45-byte block and      *)
(* every value map, writeStyling changes no byte that belongs to a         *)
(* descriptor whose key has no numeric value in the map, and no byte       *)
(* outside the block, also when two descriptors have adjacent sub-offsets. *)

StylingWriteFrame ==
    (Succeeded("writeStyling") /\ FieldsInsideBlock(last.args.fields)) =>
        LET base   == ctx.stylingOffset
            fields == last.args.fields
        IN  /\ UnchangedOutside(base, base + STYLING_LENGTH)
            /\ \A i \in DOMAIN fields :
                   ~FieldHasValue(fields[i]) =>
                       ByteAt(bytes, base + fields[i].byteOffset) =
                           ByteAt(prev, base + fields[i].byteOffset)

-----------------------------------------------------------------------------
(* C22: Styling round-trip.  For every descriptor list with distinct       *)
(* sub-offsets inside the block, in any list order, after writeStyling     *)
(* with a numeric value for every descriptor key, readStyling returns for  *)
(* each key the supplied value mod 256.                                    *)

StylingRoundTrip ==
    (/\ Succeeded("writeStyling")
     /\ FieldsInsideBlock(last.args.fields)
     /\ FieldsDistinct(last.args.fields)
     /\ \A i \in DOMAIN last.args.fields : FieldHasValue(last.args.fields[i])) =>
        LET r == readStyling(bytes, ctx, last.args.fields)
        IN  /\ r.err = ""
            /\ \A k \in FieldKeys(last.args.fields) :
                   r.val[k] = Some(Get(last.args.styling[k]) % 256)

-----------------------------------------------------------------------------
(* C23: Creature write fills the key bytes and defaults.  writeBakuganEntry *)
(* stores the creatureId and attributeId arguments (not raw.id and          *)
(* raw.attribute) at record bytes +0 and +4, stores 0 for each of power,    *)
(* speed, defense, acceleration, endurance, jump, level missing from raw,   *)
(* and writes only record bytes +0, +4, +5, +6 and +8..+13: +1..+3, +7 and  *)
(* every byte outside the record are unchanged; readBakuganEntry then       *)
(* returns raw.id = creatureId and raw.attribute = attributeId (ids in      *)
(* 0..255).                                                                 *)

\* the record byte each one-byte stat is stored at
StatByteOffset ==
    [speed |-> 8, defense |-> 9, acceleration |-> 10, endurance |-> 11,
     jump |-> 12, level |-> 13]

\* C23: key bytes from the arguments, defaults of 0, and the write's frame
EntryWriteKeyBytes ==
    Succeeded("writeBakuganEntry") =>
        LET o   == LastEntryOffset
            raw == last.args.raw
            r   == readBakuganEntry(bytes, ctx, last.args.bakuganId, last.args.attributeId)
        IN  /\ ByteAt(bytes, o + 0) = last.args.bakuganId % 256
            /\ ByteAt(bytes, o + 4) = last.args.attributeId % 256
            /\ IsNone(raw.power) => ByteAt(bytes, o + 5) = 0 /\ ByteAt(bytes, o + 6) = 0
            /\ \A k \in DOMAIN StatByteOffset :
                   IsNone(raw[k]) => ByteAt(bytes, o + StatByteOffset[k]) = 0
            /\ \A i \in {1, 2, 3, 7} : ByteAt(bytes, o + i) = ByteAt(prev, o + i)
            /\ UnchangedOutside(o, o + ENTRY_SIZE)
            /\ last.args.bakuganId \in 0..255 => r.val.raw.id = Some(last.args.bakuganId)
            /\ last.args.attributeId \in 0..255 =>
                   r.val.raw.attribute = Some(last.args.attributeId)

\* entry (5, 2) written over FF bytes with a raw that names another id and
\* attribute: +0 and +4 hold 5 and 2, +1 and +7 are still FF
EntryWriteKeyBytesWitness ==
    /\ Succeeded("writeBakuganEntry")
    /\ last.args.bakuganId = 5 /\ last.args.attributeId = 2
    /\ last.args.raw.id = Some(77) /\ last.args.raw.attribute = Some(4)
    /\ ByteAt(bytes, LastEntryOffset) = 5
    /\ ByteAt(bytes, LastEntryOffset + 4) = 2
    /\ ByteAt(bytes, LastEntryOffset + 1) = 255
    /\ ByteAt(bytes, LastEntryOffset + 7) = 255
    /\ ByteAt(bytes, LastEntryOffset + 9) = 0

-----------------------------------------------------------------------------
(* C24: Reads are side-effect free.  readBakuganEntry, readCardFlag,       *)
(* readPlayerName, readStyling, readDeck, readDeckName and readStats never *)
(* change a byte of the buffer, whether they return or throw; after any    *)
(* sequence of reads the buffer is what the last write left.               *)

ReadOps ==
    {"readBakuganEntry", "readCardFlag", "readPlayerName", "readStyling",
     "readDeck", "readDeckName", "readStats"}

\* C24: a step that is a read leaves the buffer as it was
ReadsChangeNothing == [][last'.op \in ReadOps => bytes' = bytes]_vars

\* a read that threw, made after a write that changed the buffer
ReadsChangeNothingWitness ==
    /\ last.op \in ReadOps
    /\ last.err = "InvalidDeckIndex"
    /\ nops = 2
    /\ bytes = prev
    /\ bytes.mem # EmptyMem

-----------------------------------------------------------------------------
(* Helpers of the disjointness claims *)

\* the bytes lo .. lo + n - 1, kept as <<lo, n>>
Region(lo, n) == <<lo, n>>

\* two regions share no byte
Disjoint(r1, r2) == r1[1] + r1[2] <= r2[1] \/ r2[1] + r2[2] <= r1[1]

\* the regions the name, styling, deck and deck-name calls touch under c
SlotRegions(c) ==
    { Region(c.playerNameOffset, 16),
      Region(c.stylingOffset, STYLING_LENGTH),
      Region(c.deckOffsets[1], DECK_LENGTH), Region(c.deckOffsets[2], DECK_LENGTH),
      Region(Get(c.deckNameOffsets)[1], 20), Region(Get(c.deckNameOffsets)[2], 20) }

\* what the four reads return under c on buffer b
SlotView(b, c) ==
    [ name      |-> readPlayerName(b, c),
      styling   |-> [f \in FieldLists |-> readStyling(b, c, f)],
      decks     |-> [i \in DeckIndexes |-> readDeck(b, c, i)],
      deckNames |-> [i \in DeckIndexes |-> readDeckName(b, c, i)] ]

-----------------------------------------------------------------------------
(* C25: Save-slot isolation.  On wii, ps2 and x360, for two distinct slots *)
(* i and j in 0..3, the bytes writePlayerName, writeStyling, writeDeck and *)
(* writeDeckName can modify under the slot-i context are disjoint from     *)
(* those they access under the slot-j context; after such a write to slot  *)
(* i, readPlayerName, readStyling, readDeck and readDeckName for slot j    *)
(* return what they returned before.                                       *)

SlotWriteOps == {"writePlayerName", "writeStyling", "writeDeck", "writeDeckName"}

\* C25: a write under one slot leaves every other slot's view as it was
SaveSlotIsolation ==
    ctx.platform \in {"wii", "ps2", "x360"} =>
        \A j \in (0..3) \ {ctx.slot} :
            LET other == getSaveContext(ctx.platform, j).val
            IN  /\ \A r1 \in SlotRegions(ctx), r2 \in SlotRegions(other) : Disjoint(r1, r2)
                /\ last.op \in SlotWriteOps => SlotView(bytes, other) = SlotView(prev, other)

\* a deck written to slot 1 of x360 changed the buffer and slot 2 still
\* reads its empty deck
SaveSlotIsolationWitness ==
    /\ Succeeded("writeDeck")
    /\ ctx.platform = "x360" /\ ctx.slot = 1
    /\ bytes # prev
    /\ prev.len = 57000
    /\ readDeck(bytes, getSaveContext("x360", 2).val, 0) =
           readDeck(prev, getSaveContext("x360", 2).val, 0)
    /\ readDeck(bytes, ctx, 0) # readDeck(prev, ctx, 0)

-----------------------------------------------------------------------------
(* C26: Deck and deck-name regions do not overlap.  For every platform and *)
(* slot the two 20-byte deck-name regions and the two 36-byte deck blocks  *)
(* are pairwise disjoint, so writeDeckName never changes what readDeck     *)
(* returns for either deck, and writeDeck (padding included) never changes *)
(* what readDeckName returns for either deck.                              *)

DeckRegion(k) == Region(ctx.deckOffsets[k], DECK_LENGTH)

DeckNameRegion(k) == Region(Get(ctx.deckNameOffsets)[k], 20)

\* C26: the four regions are pairwise disjoint and the calls do not interfere
DeckAndNameDisjoint ==
    /\ Disjoint(DeckRegion(1), DeckRegion(2))
    /\ Disjoint(DeckNameRegion(1), DeckNameRegion(2))
    /\ \A k, n \in {1, 2} : Disjoint(DeckRegion(k), DeckNameRegion(n))
    /\ Did("writeDeckName") =>
           \A i \in {0, 1} : readDeck(bytes, ctx, i) = readDeck(prev, ctx, i)
    /\ Did("writeDeck") =>
           \A i \in {0, 1} : readDeckName(bytes, ctx, i) = readDeckName(prev, ctx, i)

\* a name written for the second deck over FF bytes, on the platform whose
\* name region ends where the first deck's successor bytes begin: both decks
\* read as before
DeckAndNameDisjointWitness ==
    /\ Succeeded("writeDeckName")
    /\ last.args.deckIndex = 1
    /\ ctx.platform = "ps2"
    /\ bytes # prev
    /\ prev.fill = 255
    /\ readDeck(bytes, ctx, 0) = readDeck(prev, ctx, 0)
    /\ readDeck(bytes, ctx, 0).err = ""

-----------------------------------------------------------------------------
(* C27: Creature records do not overlap.  Under one context the 14-byte    *)
(* records at baseOffset + creatureId * 120 + attributeId * 20 of two      *)
(* distinct (creatureId, attributeId) pairs with attributeId in 0..5 are   *)
(* disjoint, so writeBakuganEntry for one pair never changes what          *)
(* readBakuganEntry returns for another pair.                              *)

\* the pairs looked at: the creatures written and the one after, every
\* attribute
EntryPairs == {0, 5, 6} \X (0..5)

EntryRegion(pair) == Region(getBakuganOffset(ctx, pair[1], pair[2]), ENTRY_SIZE)

\* C27: records of distinct pairs are disjoint and a write to one pair
\* leaves the entry read for every other pair as it was
EntryRecordsDisjoint ==
    /\ \A p, q \in EntryPairs : p # q => Disjoint(EntryRegion(p), EntryRegion(q))
    /\ (Did("writeBakuganEntry") /\ last.args.attributeId \in 0..5) =>
           \A q \in EntryPairs \ {<<last.args.bakuganId, last.args.attributeId>>} :
               readBakuganEntry(bytes, ctx, q[1], q[2]) = readBakuganEntry(prev, ctx, q[1], q[2])

\* entry (5, 2) written over FF bytes: its neighbours (5, 1) and (5, 3) read
\* as before
EntryRecordsDisjointWitness ==
    /\ Succeeded("writeBakuganEntry")
    /\ last.args.bakuganId = 5 /\ last.args.attributeId = 2
    /\ prev.fill = 255
    /\ bytes # prev
    /\ readBakuganEntry(bytes, ctx, 5, 1).val.raw.level = Some(255)
    /\ readBakuganEntry(bytes, ctx, 5, 3).val.raw.id = Some(255)

-----------------------------------------------------------------------------
(* C28: Editor slot invariant.  After any sequence of platform and save-   *)
(* slot selections in the editor, saveSlot is in 0..3 and is not 0 only    *)
(* while platform is "wii" (choosing a platform resets saveSlot to 0, and  *)
(* the slot selector exists only for wii); so the context used for every   *)
(* read and write on ps3, ps2 and x360 is the slot-0 context.              *)

EditorSlotInvariant ==
    /\ ui.saveSlot \in 0..3
    /\ ui.saveSlot # 0 => ui.platform = "wii"
    /\ ctx = EditorCtx(ui)
    /\ (~IsNone(ctx) /\ ui.platform \in {"ps3", "ps2", "x360"}) =>
           Get(ctx).slot = 0 /\ Get(ctx) = getSaveContext(ui.platform, 0).val

\* ps2 chosen while wii slot 2 was selected: the slot is 0 again
EditorSlotWitness ==
    /\ last.op = "selectPlatform"
    /\ last.val.platform = "wii" /\ last.val.saveSlot = 2
    /\ ui.platform = "ps2" /\ ui.saveSlot = 0

-----------------------------------------------------------------------------
(* C29: File-load race.  handleFile sets fileName before it awaits         *)
(* file.arrayBuffer() and sets parsed after it; for every interleaving of  *)
(* two or more overlapping loads, once all of them have completed the      *)
(* fileName shown (and used as the download name) is the name of the file  *)
(* whose bytes are held in parsed.                                         *)

\* C29: no read under way and no update waiting: the name shown is the name
\* of the file held
FileNameMatchesParsed ==
    (ui.pending = <<>> /\ ui.queue = <<>> /\ ~IsNone(ui.parsed)) =>
        ui.fileName = Get(ui.parsed)

-----------------------------------------------------------------------------
(* C30: Card view stays consistent with the buffer.  Whenever no handler   *)
(* is running and cardStates is not null, each card's unlocked flag in     *)
(* cardStates equals readCardFlag(parsed.bytes, ctx, card.id), after any   *)
(* sequence of file loads, platform and slot changes, single-card toggles, *)
(* Unlock All and Lock All, also when a writeCardFlag call throws part-way *)
(* through Unlock All or Lock All.                                         *)

\* C30: in every state between two handlers, a card view that is not null
\* shows for each card the flag readCardFlag returns for it on the buffer
\* and the context of that state
CardViewConsistent ==
    ~IsNone(ui.cardStates) =>
        /\ ~IsNone(ui.parsed)
        /\ ~IsNone(ctx)
        /\ \A i \in DOMAIN cardList :
               /\ readCardFlag(bytes, Get(ctx), cardList[i]).err = ""
               /\ Get(ui.cardStates)[i] = readCardFlag(bytes, Get(ctx), cardList[i]).val

=============================================================================
